---- MODULE Spec2Model ----
(***************************************************************************)
(* A model of the data-freshness and persistence core of the stock         *)
(* browsing client: the Wishlist Store (services/wishlistService.js), the  *)
(* Expiring Cache (services/cacheService.js) and the Stock Data            *)
(* Orchestrator (services/stockService_new.js) in front of the Market Data *)
(* Gateway (services/apiService.js).                                       *)
(*                                                                         *)
(* Every `await` of the source is a point where another call may run, so   *)
(* each operation is split at its awaits: the step of the key-value store  *)
(* (AsyncStorage) and the continuation of the caller are separate steps.   *)
(* Timestamps are the millisecond clock reading; toISOString() and         *)
(* Date.now().toString() are injective renderings of that reading.         *)
(***************************************************************************)
EXTENDS Integers, Sequences, FiniteSets, TLC

VARIABLES
    now,        \* Date.now(): the millisecond clock
    wstore,     \* AsyncStorage entry 'stock_wishlists': [has, val]
    mirror,     \* WishlistService.cache (this.cache): [kind, val, p]
    wcall,      \* the wishlist calls in flight, one slot per caller
    lastRet,    \* what the most recently completed wishlist call reported
    cstore,     \* AsyncStorage entries 'cache_<key>': key -> [has, data, timestamp, expiration]
    fcall,      \* the cache and orchestrator calls in flight, one slot per caller
    hcall,      \* the cache housekeeping call in flight (isValid .. getStats)
    scall,      \* the local search most recently performed: [query, results]
    pcall,      \* the call of a stateless operation in flight (makeRequest,
                \* getStockChart's reshaping): [op, pc, arg, ret]
    wio         \* a log of the Wishlist Store's AsyncStorage traffic, kept
                \* when `on`: [on, queue, ok], the callers whose operation
                \* awaits its callback, oldest first, and whether the most
                \* recent operation succeeded

wvars == <<wstore, mirror, wcall, lastRet, wio>>
cvars == <<cstore, fcall>>
xvars == <<hcall, scall, pcall>>
vars == <<now, wstore, mirror, wcall, lastRet, cstore, fcall, hcall, scall, pcall,
         wio>>

----------------------------------------------------------------------------
(* Bounds of the model *)

MaxClock == 1       \* the clock reads 0..MaxClock
MaxLists == 2       \* a create is started only while fewer lists are stored
MaxStocks == 2      \* an add is started only while the list holds fewer stocks
MaxQueryLen == 2    \* the length of the pieces of text tried as search queries

WProcs == {1, 2}    \* two UI surfaces calling the Wishlist Store

----------------------------------------------------------------------------
(* Values *)

Undef == "<undefined>"      \* a field the JavaScript object does not carry
NoId == "<none>"

\* Names handed to createWishlist: padded, plain, and whitespace only
NameInputs == {" Tech ", "Tech", "   "}

\* String.prototype.trim on the names above
trim(s) ==
    CASE s = " Tech " -> "Tech"
      [] s = "   " -> ""
      [] OTHER -> s

\* Stock objects handed to addStockToWishlist: the identifier in `symbol`
\* (CompanyOverviewScreen passes both fields) or only in `ticker` (the
\* formatted movers items carry `ticker` only)
StockInputs ==
    { [symbol |-> "AAPL", ticker |-> "AAPL", name |-> "Apple Inc.",
       price |-> "$175.43", change |-> "+2.15%"],
      [symbol |-> Undef, ticker |-> "AAPL", name |-> "Apple Inc.",
       price |-> "$175.43", change |-> "+2.15%"],
      [symbol |-> "TSLA", ticker |-> Undef, name |-> "Tesla Inc.",
       price |-> "$248.96", change |-> "-1.23%"] }

NoStock == [symbol |-> Undef, ticker |-> Undef, name |-> Undef,
            price |-> Undef, change |-> Undef]

Symbols == {"AAPL", "TSLA"}

\* Arrays handed to updateStockPrices
UpdateInputs ==
    { << [symbol |-> "AAPL", ticker |-> Undef, price |-> "$180.00", change |-> "+2.60%"] >>,
      << [symbol |-> Undef, ticker |-> "TSLA", price |-> "$240.00", change |-> "-3.60%"] >>,
      << >> }

\* a || b of JavaScript on string-or-undefined operands
OrElse(a, b) == IF a # Undef /\ a # "" THEN a ELSE b

\* Date.now().toString()
IdOf(t) == ToString(t)

Range(s) == {s[i] : i \in 1..Len(s)}

\* Array.prototype.findIndex(w => w.id === id): 0 stands for -1
findIndex(arr, id) ==
    IF \E i \in 1..Len(arr) : arr[i].id = id
    THEN CHOOSE i \in 1..Len(arr) :
            arr[i].id = id /\ \A j \in 1..(i - 1) : arr[j].id # id
    ELSE 0

IdleCall == [pc |-> "idle", op |-> "none", id |-> NoId, name |-> "",
             stock |-> NoStock, sym |-> Undef, upd |-> << >>,
             arr |-> << >>, out |-> << >>, readOk |-> TRUE, wok |-> TRUE,
             new |-> NoId]

NoRet == [p |-> 0, op |-> "none", ok |-> TRUE, val |-> "none"]

\* The collection a getItem + JSON.parse of the stored entry yields
\* (`data ? JSON.parse(data) : []`)
Persisted == IF wstore.has THEN wstore.val ELSE << >>

\* The array this.cache refers to: the array of a call in flight (the
\* mirror and the call's local `wishlists` are one object) or an array no
\* call holds any more
MirrorVal ==
    IF mirror.kind = "ref" THEN wcall[mirror.p].arr ELSE mirror.val

----------------------------------------------------------------------------
(* Expiring Cache and Stock Data Orchestrator: values *)

FProcs == {1, 2}    \* callers of the orchestrator and of the cache

Categories == {"movers", "overview", "chart"}

\* CACHE_KEYS, for the symbol AAPL and the default period 1M
CacheKey(cat) ==
    CASE cat = "movers" -> "top_gainers_losers"
      [] cat = "overview" -> "company_overview_" \o "AAPL"
      [] cat = "chart" -> "stock_chart_" \o "AAPL" \o "_" \o "1M"

CacheKeyNames == {CacheKey(c) : c \in Categories}

\* Every key under the prefix 'cache_' that the store may hold: the three
\* above, the fundamentals of a second symbol and a cached search, in the
\* order in which getAllKeys lists them
KeyOrder ==
    << "top_gainers_losers", "company_overview_AAPL", "stock_chart_AAPL_1M",
       "company_overview_TSLA", "search_results_AAPL" >>

HouseKeys == {KeyOrder[i] : i \in 1..Len(KeyOrder)}

DEFAULT_EXPIRATION == 5 * 60 * 1000

\* CACHE_DURATIONS, in milliseconds
STOCK_DATA == 5 * 60 * 1000
COMPANY_DATA == 30 * 60 * 1000
CHART_DATA == 10 * 60 * 1000

TTL(cat) ==
    CASE cat = "movers" -> STOCK_DATA
      [] cat = "overview" -> COMPANY_DATA
      [] cat = "chart" -> CHART_DATA

DAY_MS == 24 * 60 * 60 * 1000

NoData == [none |-> TRUE]
NoItem == [has |-> FALSE, data |-> NoData, timestamp |-> 0, expiration |-> 0]

\* A stored string that JSON.parse cannot decode
Garbage == [garbage |-> TRUE]
BadItem == [has |-> TRUE, data |-> Garbage, timestamp |-> 0, expiration |-> 0]
Decodable(item) == item.data # Garbage

\* ---- what the market-data API can deliver -------------------------------
\* Numbers travel as decimal strings with four decimals ("175.4300"); they
\* are held here as the integer number of 1/10000 units, which is the value
\* parseFloat yields.

RawStock(ticker, price, amount, pct, volume) ==
    [ticker |-> ticker, price |-> price, change_amount |-> amount,
     change_percentage |-> pct, volume |-> volume]

\* TOP_GAINERS_LOSERS bodies: `lists` tells whether the three list fields
\* are arrays, are missing, or are something that has no .map
MoversBodyA ==
    [lists |-> "array",
     metadata |-> "Top gainers, losers, and most actively traded US tickers",
     last_updated |-> "2024-01-02 16:15:59 US/Eastern",
     top_gainers |-> << RawStock("NVDA", 4951234, 251234, "5.3456%", "41234567") >>,
     top_losers |-> << RawStock("XYZ", 12349, 0 - 5051, "-29.0300%", "1234") >>,
     most_actively_traded |-> << RawStock("TSLA", 2489600, 0 - 31000, "-1.2300%", "45692134"),
                                 RawStock("NVDA", 4951234, 251234, "5.3456%", "41234567") >>]

MoversBodyB ==
    [lists |-> "missing", metadata |-> Undef, last_updated |-> Undef,
     top_gainers |-> << >>, top_losers |-> << >>, most_actively_traded |-> << >>]

MoversBodyBad ==
    [lists |-> "notArray", metadata |-> Undef, last_updated |-> Undef,
     top_gainers |-> << >>, top_losers |-> << >>, most_actively_traded |-> << >>]

\* OVERVIEW body
OverviewBody ==
    [Symbol |-> "AAPL", Name |-> "Apple Inc", Exchange |-> "NASDAQ", Sector |-> "TECHNOLOGY"]

\* Time-series bodies: `block` is the label of the series block the body
\* carries; a date is a day number counted from the day the clock reads 0
Bar(date, open, high, low, close, volume) ==
    [date |-> date, open |-> open, high |-> high, low |-> low, close |-> close,
     volume |-> volume]

DailyBody ==
    [block |-> "Time Series (Daily)", meta |-> TRUE, symbol |-> "AAPL",
     refreshed |-> "2024-01-02",
     series |-> { Bar(0 - 1, 1750000, 1760000, 1740000, 1754300, 28456789),
                  Bar(0 - 40, 1700000, 1710000, 1690000, 1701200, 30000000),
                  Bar(0 - 2, 1740000, 1755000, 1730000, 1749900, 27000000) }]

NoSeriesBody ==
    [block |-> "none", meta |-> FALSE, symbol |-> Undef, refreshed |-> Undef,
     series |-> {}]

Bodies(cat) ==
    CASE cat = "movers" -> {MoversBodyA, MoversBodyB, MoversBodyBad}
      [] cat = "overview" -> {OverviewBody}
      [] cat = "chart" -> {DailyBody, NoSeriesBody}

\* ---- Market Data Gateway: makeRequest ------------------------------------
\* What the transport delivers: the fetch is aborted by the timeout, fails
\* on the network, or answers with a status and a JSON body.
Transports(cat) ==
    { [kind |-> "abort", status |-> 0, field |-> "none", body |-> NoData],
      [kind |-> "network", status |-> 0, field |-> "none", body |-> NoData],
      [kind |-> "response", status |-> 503, field |-> "none", body |-> NoData],
      [kind |-> "response", status |-> 200, field |-> "Error Message", body |-> NoData],
      [kind |-> "response", status |-> 200, field |-> "Note", body |-> NoData] }
    \cup { [kind |-> "response", status |-> 200, field |-> "none", body |-> b] :
            b \in Bodies(cat) }

\* What makeRequest makes of a transport outcome when `checksNote` tells
\* whether data['Note'] is looked at
Envelope(t, checksNote) ==
    IF t.kind = "abort"
    THEN [rejected |-> TRUE, success |-> FALSE, data |-> NoData,
          error |-> "Request timeout - please check your internet connection",
          status |-> 0]
    ELSE IF t.kind = "network"
    THEN [rejected |-> FALSE, success |-> FALSE, data |-> NoData,
          error |-> "Network request failed", status |-> 500]
    ELSE IF ~(t.status >= 200 /\ t.status <= 299)
    THEN [rejected |-> FALSE, success |-> FALSE, data |-> NoData,
          error |-> "HTTP error! status: " \o ToString(t.status), status |-> 500]
    ELSE IF t.body = Garbage
    THEN [rejected |-> FALSE, success |-> FALSE, data |-> NoData,
          error |-> "JSON Parse error: Unexpected token", status |-> 500]
    ELSE IF t.field \in {"Error Message", "both"}
    THEN [rejected |-> FALSE, success |-> FALSE, data |-> NoData,
          error |-> "Invalid API call.", status |-> 500]
    ELSE IF checksNote /\ t.field = "Note"
    THEN [rejected |-> FALSE, success |-> FALSE, data |-> NoData,
          error |-> "API call frequency limit reached. Please try again later.",
          status |-> 500]
    ELSE [rejected |-> FALSE, success |-> TRUE, data |-> t.body, error |-> "",
          status |-> t.status]

makeRequestIgnoringNote(t) == Envelope(t, FALSE)

\* makeRequest: a success envelope, a failure envelope, or (rejected) the
\* error thrown for an aborted fetch
makeRequest(t) == Envelope(t, TRUE)

\* ---- reshaping ------------------------------------------------------------
KnownTickers ==
    ("AAPL" :> "Apple Inc.") @@
    ("TSLA" :> "Tesla Inc.") @@
    ("MSFT" :> "Microsoft Corp.") @@
    ("AMZN" :> "Amazon.com Inc.") @@
    ("GOOGL" :> "Alphabet Inc.") @@
    ("META" :> "Meta Platforms Inc.") @@
    ("NFLX" :> "Netflix Inc.") @@
    ("NVDA" :> "NVIDIA Corp.") @@
    ("BRK.A" :> "Berkshire Hathaway") @@
    ("BRK.B" :> "Berkshire Hathaway") @@
    ("UNH" :> "UnitedHealth Group") @@
    ("JNJ" :> "Johnson & Johnson") @@
    ("JPM" :> "JPMorgan Chase") @@
    ("V" :> "Visa Inc.") @@
    ("PG" :> "Procter & Gamble") @@
    ("HD" :> "Home Depot") @@
    ("MA" :> "Mastercard Inc.") @@
    ("BAC" :> "Bank of America") @@
    ("ABBV" :> "AbbVie Inc.") @@
    ("PFE" :> "Pfizer Inc.") @@
    ("KO" :> "Coca-Cola") @@
    ("AVGO" :> "Broadcom Inc.") @@
    ("PEP" :> "PepsiCo Inc.") @@
    ("TMO" :> "Thermo Fisher") @@
    ("COST" :> "Costco Wholesale") @@
    ("DIS" :> "Walt Disney") @@
    ("ABT" :> "Abbott Laboratories") @@
    ("ACN" :> "Accenture") @@
    ("VZ" :> "Verizon") @@
    ("ADBE" :> "Adobe Inc.") @@
    ("DHR" :> "Danaher Corp.") @@
    ("WMT" :> "Walmart Inc.") @@
    ("TXN" :> "Texas Instruments") @@
    ("NEE" :> "NextEra Energy") @@
    ("BMY" :> "Bristol Myers")

\* knownTickers[ticker] || `${ticker} Inc.`
getCompanyName(ticker) ==
    IF ticker \in DOMAIN KnownTickers THEN KnownTickers[ticker] ELSE ticker \o " Inc."

\* Number.prototype.toFixed(2) of a value held in 1/10000 units: the number
\* of hundredths, rounded to the nearest
toFixed2(x) == IF x >= 0 THEN (x + 50) \div 100 ELSE 0 - ((50 - x) \div 100)

\* `$${parseFloat(v).toFixed(2)}`
Dollar(x) == [prefix |-> "$", hundredths |-> toFixed2(x)]

formatStockList(stocks) ==
    [i \in 1..Len(stocks) |->
        [id |-> i,
         ticker |-> stocks[i].ticker,
         name |-> getCompanyName(stocks[i].ticker),
         price |-> Dollar(stocks[i].price),
         change |-> stocks[i].change_percentage,
         changeAmount |-> Dollar(stocks[i].change_amount),
         volume |-> stocks[i].volume]]

\* formatStockData throws when a list field is there and has no .map
formatStockDataThrows(apiData) == apiData.lists = "notArray"

formatStockData(apiData) ==
    [metadata |-> [text |-> apiData.metadata],
     lastUpdated |-> [text |-> apiData.last_updated],
     topGainers |-> formatStockList(apiData.top_gainers),
     topLosers |-> formatStockList(apiData.top_losers),
     mostActive |-> formatStockList(apiData.most_actively_traded)]

\* Object.keys(timeSeries).sort(): the bars in ascending order of date
RECURSIVE SortByDate(_)
SortByDate(bars) ==
    IF bars = {} THEN << >>
    ELSE LET first == CHOOSE b \in bars : \A c \in bars : b.date <= c.date
         IN << first >> \o SortByDate(bars \ {first})

\* the days a period reaches back; 0 for a period that is not recognized
PeriodDays(period) ==
    CASE period = "1W" -> 7
      [] period = "1M" -> 30
      [] period = "3M" -> 90
      [] period = "6M" -> 180
      [] period = "1Y" -> 365
      [] period = "5Y" -> 5 * 365
      [] OTHER -> 0

\* new Date(item.date) >= cutoffDate with cutoffDate = t - days * DAY_MS:
\* date * DAY_MS >= t - days * DAY_MS, that is (date + days) * DAY_MS >= t,
\* written with a division to stay within TLC's integers (t >= 0)
OnOrAfterCutoff(date, days, t) == date + days >= (t + DAY_MS - 1) \div DAY_MS

\* filterDataByPeriod at clock reading t
filterDataByPeriod(data, period, t) ==
    IF PeriodDays(period) = 0 THEN data
    ELSE SelectSeq(data, LAMBDA item : OnOrAfterCutoff(item.date, PeriodDays(period), t))

formatChartDataThrows(apiData) == apiData.block = "none"

formatChartData(apiData, period, t) ==
    LET sorted == SortByDate(apiData.series)
        rawData == [i \in 1..Len(sorted) |->
                      [date |-> sorted[i].date, price |-> sorted[i].close,
                       volume |-> sorted[i].volume, high |-> sorted[i].high,
                       low |-> sorted[i].low, open |-> sorted[i].open]]
        filteredData == filterDataByPeriod(rawData, period, t)
    IN [symbol |-> IF apiData.meta THEN apiData.symbol ELSE "Unknown",
        lastRefreshed |-> IF apiData.meta THEN [text |-> apiData.refreshed]
                                          ELSE [at |-> t],
        period |-> period,
        rawData |-> filteredData,
        dataPoints |-> Len(filteredData)]

\* getFallbackData at clock reading t
dummyStocks ==
    << [id |-> 1, ticker |-> "AAPL", name |-> "Apple Inc.",
        price |-> "$175.43", change |-> "+2.15%", changeAmount |-> "+$3.69",
        volume |-> "28,456,789"],
       [id |-> 2, ticker |-> "GOOGL", name |-> "Alphabet Inc.",
        price |-> "$142.87", change |-> "+1.87%", changeAmount |-> "+$2.63",
        volume |-> "31,287,456"],
       [id |-> 3, ticker |-> "MSFT", name |-> "Microsoft Corp.",
        price |-> "$367.12", change |-> "+0.92%", changeAmount |-> "+$3.34",
        volume |-> "22,876,543"],
       [id |-> 4, ticker |-> "TSLA", name |-> "Tesla Inc.",
        price |-> "$248.96", change |-> "-1.23%", changeAmount |-> "-$3.10",
        volume |-> "45,692,134"] >>

getFallbackData(t) ==
    [metadata |-> [information |-> "Fallback data - API temporarily unavailable"],
     lastUpdated |-> [at |-> t],
     topGainers |-> SubSeq(dummyStocks, 1, 3),
     topLosers |-> SubSeq(dummyStocks, 2, 4),
     mostActive |-> dummyStocks]

\* What a fetch or a cache call hands back: data, null, or a thrown error
Data(d) == [kind |-> "data", data |-> d, msg |-> ""]
Null == [kind |-> "null", data |-> NoData, msg |-> ""]
Raise(msg) == [kind |-> "error", data |-> NoData, msg |-> msg]

NoEnvelope == [rejected |-> FALSE, success |-> FALSE, data |-> NoData,
               error |-> "", status |-> 0]

IdleFetch == [pc |-> "idle", op |-> "none", cat |-> "movers", force |-> FALSE,
              item |-> NoItem, readOk |-> TRUE, phase |-> 0,
              resp |-> NoEnvelope, called |-> FALSE, entry |-> NoItem,
              saw |-> "none", err |-> "", wOk |-> TRUE, ret |-> Null]

\* No housekeeping call in flight; no search performed yet
IdleHouse == [pc |-> "idle", op |-> "none", key |-> "", entry |-> NoItem,
              keys |-> << >>, idx |-> 0, totalItems |-> 0, validItems |-> 0,
              expiredItems |-> 0, expiredKeys |-> << >>, ok |-> TRUE,
              ret |-> [kind |-> "none"]]
NoSearch == [query |-> "", results |-> << >>]
IdlePure == [op |-> "none", pc |-> "idle"]
NoLog == [on |-> FALSE, queue |-> << >>, ok |-> TRUE]

----------------------------------------------------------------------------
(* Initial state: nothing stored, this.cache = null *)

Constructed ==
    /\ now = 0
    /\ wstore = [has |-> FALSE, val |-> << >>]
    /\ mirror = [kind |-> "null", val |-> << >>, p |-> 0]
    /\ wcall = [p \in WProcs |-> IdleCall]
    /\ lastRet = NoRet
    /\ cstore = [k \in HouseKeys |-> NoItem]
    /\ fcall = [p \in FProcs |-> IdleFetch]
    /\ hcall = IdleHouse
    /\ scall = NoSearch
    /\ pcall = IdlePure

Init == Constructed /\ wio = NoLog

\* The clock advances
Tick ==
    /\ now < MaxClock
    /\ now' = now + 1
    /\ UNCHANGED <<wvars, cvars, xvars>>

----------------------------------------------------------------------------
(* Wishlist Store: helpers common to every operation *)

NoTime == 0 - 1     \* a timestamp field the object does not carry

IdInputs == {IdOf(t) : t \in 0..MaxClock} \cup {"unknown"}

\* The effect of getWishlists' continuation on this.cache: the parsed array
\* becomes the mirror when the read succeeded; a failed read (getItem
\* rejected, or JSON.parse threw) leaves it alone and yields a fresh []
MirrorAfterRead(p) ==
    IF wcall[p].readOk THEN [kind |-> "ref", val |-> << >>, p |-> p] ELSE mirror

\* When a call ends, the array it held lives on only through this.cache
Detach(p, m, arr) ==
    IF m.kind = "ref" /\ m.p = p THEN [kind |-> "val", val |-> arr, p |-> 0] ELSE m

\* The log of AsyncStorage traffic: caller p's operation has been carried
\* out with outcome ok and its callback is due / p's write has been handed
\* over, the outcome of its read taken / the store has carried out a write /
\* p's call has ended
Without(queue, p) == SelectSeq(queue, LAMBDA q : q # p)

Issued(p, ok) ==
    IF wio.on THEN [wio EXCEPT !.queue = Append(Without(@, p), p), !.ok = ok] ELSE wio

Requeued(p) ==
    IF wio.on THEN [wio EXCEPT !.queue = Append(Without(@, p), p)] ELSE wio

Settled(ok) == IF wio.on THEN [wio EXCEPT !.ok = ok] ELSE wio

Left(p) == IF wio.on THEN [wio EXCEPT !.queue = Without(@, p)] ELSE wio

\* The getItem of getWishlists, issued as the first thing a call does
getItem(p, call) ==
    /\ wcall[p].pc = "idle"
    /\ \E ok \in BOOLEAN :
        /\ wcall' = [wcall EXCEPT ![p] =
                [call EXCEPT !.pc = "read",
                             !.readOk = ok,
                             !.arr = IF ok THEN Persisted ELSE << >>]]
        /\ wio' = Issued(p, ok)
    /\ lastRet' = NoRet
    /\ UNCHANGED <<now, wstore, mirror, cvars, xvars>>

\* A call ends: its slot is free again and its result is what the caller got
Finish(p, m, arr, ok, val) ==
    /\ mirror' = Detach(p, m, arr)
    /\ lastRet' = [p |-> p, op |-> wcall[p].op, ok |-> ok, val |-> val]
    /\ wcall' = [wcall EXCEPT ![p] = IdleCall]
    /\ wio' = Left(p)

\* AsyncStorage.setItem(WISHLIST_KEY, JSON.stringify(wishlists)) takes effect
\* or rejects. The string was built when setItem was called, from `out`.
WrittenValueMerged(local) ==
    Persisted \o SelectSeq(local, LAMBDA w :
                    \A i \in 1..Len(Persisted) : Persisted[i].id # w.id)

WrittenValue(local) == local

setItem(p) ==
    /\ wcall[p].pc = "write"
    /\ \E ok \in BOOLEAN :
        /\ wcall' = [wcall EXCEPT ![p].pc = "wrote", ![p].wok = ok]
        /\ wstore' = IF ok THEN [has |-> TRUE, val |-> WrittenValue(wcall[p].out)]
                           ELSE wstore
        /\ wio' = Settled(ok)
    /\ UNCHANGED <<now, mirror, lastRet, cvars, xvars>>

----------------------------------------------------------------------------
(* getWishlists (list) *)

getWishlists(p) ==
    getItem(p, [IdleCall EXCEPT !.op = "list"])

getWishlistsDone(p) ==
    /\ wcall[p].pc = "read"
    /\ wcall[p].op = "list"
    /\ Finish(p, MirrorAfterRead(p), wcall[p].arr, TRUE, "array")
    /\ UNCHANGED <<now, wstore, cvars, xvars>>

----------------------------------------------------------------------------
(* createWishlist *)

createWishlist(p, name) ==
    /\ Len(Persisted) < MaxLists
    /\ getItem(p, [IdleCall EXCEPT !.op = "create", !.name = name])

\* The id of a new wishlist
NewId(t) == IdOf(t)

NewWishlist(name, t) ==
    [id |-> NewId(t), name |-> trim(name), stocks |-> << >>,
     createdAt |-> t, updatedAt |-> t]

\* after `await this.getWishlists()`: build, push, call setItem
createWishlistCont(p) ==
    /\ wcall[p].pc = "read"
    /\ wcall[p].op = "create"
    /\ LET w == NewWishlist(wcall[p].name, now)
           a == Append(wcall[p].arr, w)
       IN wcall' = [wcall EXCEPT ![p].pc = "write", ![p].arr = a,
                                 ![p].out = a, ![p].new = w.id]
    /\ mirror' = MirrorAfterRead(p)
    /\ wio' = Requeued(p)
    /\ UNCHANGED <<now, wstore, lastRet, cvars, xvars>>

\* createWishlist with its catch clause taken away
createWishlistDoneSwallow(p) ==
    /\ wcall[p].pc = "wrote"
    /\ wcall[p].op = "create"
    /\ Finish(p, [kind |-> "val", val |-> wcall[p].out, p |-> 0],
              wcall[p].arr, TRUE, "wishlist")
    /\ UNCHANGED <<now, wstore, cvars, xvars>>

createWishlistDone(p) ==
    /\ wcall[p].pc = "wrote"
    /\ wcall[p].op = "create"
    /\ IF wcall[p].wok
       THEN Finish(p, [kind |-> "val", val |-> wcall[p].out, p |-> 0],
                   wcall[p].arr, TRUE, "wishlist")
       ELSE Finish(p, mirror, wcall[p].arr, FALSE, "Failed to create wishlist")
    /\ UNCHANGED <<now, wstore, cvars, xvars>>

----------------------------------------------------------------------------
(* deleteWishlist *)

deleteWishlist(p, id) ==
    getItem(p, [IdleCall EXCEPT !.op = "delete", !.id = id])

\* wishlists.filter(w => w.id !== wishlistId)
filterWishlistsKeeping(arr, id) == SelectSeq(arr, LAMBDA w : w.id = id)

filterWishlists(arr, id) == SelectSeq(arr, LAMBDA w : w.id # id)

deleteWishlistCont(p) ==
    /\ wcall[p].pc = "read"
    /\ wcall[p].op = "delete"
    /\ wcall' = [wcall EXCEPT ![p].pc = "write",
                              ![p].out = filterWishlists(wcall[p].arr, wcall[p].id)]
    /\ mirror' = MirrorAfterRead(p)
    /\ wio' = Requeued(p)
    /\ UNCHANGED <<now, wstore, lastRet, cvars, xvars>>

\* deleteWishlist ending with `this.cache = wishlists`
deleteWishlistDoneUnfiltered(p) ==
    /\ wcall[p].pc = "wrote"
    /\ wcall[p].op = "delete"
    /\ IF wcall[p].wok
       THEN Finish(p, [kind |-> "val", val |-> wcall[p].arr, p |-> 0],
                   wcall[p].arr, TRUE, "true")
       ELSE Finish(p, mirror, wcall[p].arr, FALSE, "false")
    /\ UNCHANGED <<now, wstore, cvars, xvars>>

deleteWishlistDone(p) ==
    /\ wcall[p].pc = "wrote"
    /\ wcall[p].op = "delete"
    /\ IF wcall[p].wok
       THEN Finish(p, [kind |-> "val", val |-> wcall[p].out, p |-> 0],
                   wcall[p].arr, TRUE, "true")
       ELSE Finish(p, mirror, wcall[p].arr, FALSE, "false")
    /\ UNCHANGED <<now, wstore, cvars, xvars>>

----------------------------------------------------------------------------
(* addStockToWishlist *)

addStockToWishlist(p, id, stock) ==
    /\ LET i == findIndex(Persisted, id)
       IN i # 0 => Len(Persisted[i].stocks) < MaxStocks
    /\ getItem(p, [IdleCall EXCEPT !.op = "add", !.id = id, !.stock = stock])

\* wishlist.stocks.some(s => s.symbol === stock.symbol)
stockExists(wishlist, stock) ==
    \E i \in 1..Len(wishlist.stocks) : wishlist.stocks[i].symbol = stock.symbol

stockToAdd(stock, t) ==
    [symbol |-> OrElse(stock.symbol, stock.ticker), name |-> stock.name,
     price |-> stock.price, change |-> stock.change,
     addedAt |-> t, lastUpdated |-> NoTime]

\* after `await this.getWishlists()`: look the list up, refuse a duplicate,
\* push the stock, call setItem; the two throws are rethrown by the catch
addStockToWishlistCont(p) ==
    /\ wcall[p].pc = "read"
    /\ wcall[p].op = "add"
    /\ LET arr == wcall[p].arr
           i == findIndex(arr, wcall[p].id)
       IN IF i = 0
          THEN Finish(p, MirrorAfterRead(p), arr, FALSE, "Wishlist not found")
          ELSE IF stockExists(arr[i], wcall[p].stock)
          THEN Finish(p, MirrorAfterRead(p), arr, FALSE,
                      "Stock already exists in this wishlist")
          ELSE LET a == [arr EXCEPT
                            ![i].stocks = Append(@, stockToAdd(wcall[p].stock, now)),
                            ![i].updatedAt = now]
               IN /\ wcall' = [wcall EXCEPT ![p].pc = "write", ![p].arr = a,
                                            ![p].out = a]
                  /\ mirror' = MirrorAfterRead(p)
                  /\ wio' = Requeued(p)
                  /\ UNCHANGED lastRet
    /\ UNCHANGED <<now, wstore, cvars, xvars>>

addStockToWishlistDone(p) ==
    /\ wcall[p].pc = "wrote"
    /\ wcall[p].op = "add"
    /\ IF wcall[p].wok
       THEN Finish(p, [kind |-> "val", val |-> wcall[p].out, p |-> 0],
                   wcall[p].arr, TRUE, "true")
       ELSE Finish(p, mirror, wcall[p].arr, FALSE, "storage error")
    /\ UNCHANGED <<now, wstore, cvars, xvars>>

----------------------------------------------------------------------------
(* removeStockFromWishlist *)

removeStockFromWishlist(p, id, sym) ==
    getItem(p, [IdleCall EXCEPT !.op = "remove", !.id = id, !.sym = sym])

\* the filter with its test the wrong way round
filterStocksMatching(stocks, sym) == SelectSeq(stocks, LAMBDA s : s.symbol = sym)

\* wishlist.stocks.filter(s => s.symbol !== stockSymbol)
filterStocks(stocks, sym) == SelectSeq(stocks, LAMBDA s : s.symbol # sym)

removeStockFromWishlistCont(p) ==
    /\ wcall[p].pc = "read"
    /\ wcall[p].op = "remove"
    /\ LET arr == wcall[p].arr
           i == findIndex(arr, wcall[p].id)
       IN IF i = 0
          THEN Finish(p, MirrorAfterRead(p), arr, FALSE, "false")
          ELSE LET a == [arr EXCEPT
                            ![i].stocks = filterStocks(@, wcall[p].sym),
                            ![i].updatedAt = now]
               IN /\ wcall' = [wcall EXCEPT ![p].pc = "write", ![p].arr = a,
                                            ![p].out = a]
                  /\ mirror' = MirrorAfterRead(p)
                  /\ wio' = Requeued(p)
                  /\ UNCHANGED lastRet
    /\ UNCHANGED <<now, wstore, cvars, xvars>>

removeStockFromWishlistDone(p) ==
    /\ wcall[p].pc = "wrote"
    /\ wcall[p].op = "remove"
    /\ IF wcall[p].wok
       THEN Finish(p, [kind |-> "val", val |-> wcall[p].out, p |-> 0],
                   wcall[p].arr, TRUE, "true")
       ELSE Finish(p, mirror, wcall[p].arr, FALSE, "false")
    /\ UNCHANGED <<now, wstore, cvars, xvars>>

----------------------------------------------------------------------------
(* updateStockPrices *)

updateStockPrices(p, upd) ==
    getItem(p, [IdleCall EXCEPT !.op = "update", !.upd = upd])

\* s.symbol === stock.symbol alone
updateMatchesSymbolOnly(s, stock) == s.symbol = stock.symbol

\* s.symbol === stock.symbol || s.ticker === stock.symbol
updateMatches(s, stock) == s.symbol = stock.symbol \/ s.ticker = stock.symbol

\* updatedStocks.find(...): the first match; 0 stands for undefined
findUpdate(upd, stock) ==
    IF \E k \in 1..Len(upd) : updateMatches(upd[k], stock)
    THEN CHOOSE k \in 1..Len(upd) :
            /\ updateMatches(upd[k], stock)
            /\ \A j \in 1..(k - 1) : ~updateMatches(upd[j], stock)
    ELSE 0

updateStock(upd, stock, t) ==
    LET k == findUpdate(upd, stock)
    IN IF k = 0 THEN stock
       ELSE [stock EXCEPT !.price = upd[k].price, !.change = upd[k].change,
                          !.lastUpdated = t]

updateWishlist(upd, w, t) ==
    [w EXCEPT !.stocks = [j \in 1..Len(w.stocks) |-> updateStock(upd, w.stocks[j], t)]]

hasUpdates(upd, arr) ==
    \E i \in 1..Len(arr) : \E j \in 1..Len(arr[i].stocks) :
        findUpdate(upd, arr[i].stocks[j]) # 0

updateStockPricesCont(p) ==
    /\ wcall[p].pc = "read"
    /\ wcall[p].op = "update"
    /\ LET arr == wcall[p].arr
           a == [i \in 1..Len(arr) |-> updateWishlist(wcall[p].upd, arr[i], now)]
       IN IF hasUpdates(wcall[p].upd, arr)
          THEN /\ wcall' = [wcall EXCEPT ![p].pc = "write", ![p].arr = a,
                                         ![p].out = a]
               /\ mirror' = MirrorAfterRead(p)
               /\ wio' = Requeued(p)
               /\ UNCHANGED lastRet
          ELSE Finish(p, MirrorAfterRead(p), arr, TRUE, "true")
    /\ UNCHANGED <<now, wstore, cvars, xvars>>

updateStockPricesDone(p) ==
    /\ wcall[p].pc = "wrote"
    /\ wcall[p].op = "update"
    /\ IF wcall[p].wok
       THEN Finish(p, [kind |-> "val", val |-> wcall[p].out, p |-> 0],
                   wcall[p].arr, TRUE, "true")
       ELSE Finish(p, mirror, wcall[p].arr, FALSE, "false")
    /\ UNCHANGED <<now, wstore, cvars, xvars>>

----------------------------------------------------------------------------
(* clearAllWishlists *)

\* AsyncStorage.removeItem(WISHLIST_KEY) takes effect or rejects
clearAllWishlists(p) ==
    /\ wcall[p].pc = "idle"
    /\ \E ok \in BOOLEAN :
        /\ wcall' = [wcall EXCEPT ![p] =
                        [IdleCall EXCEPT !.pc = "wrote", !.op = "clear", !.wok = ok]]
        /\ wstore' = IF ok THEN [has |-> FALSE, val |-> << >>] ELSE wstore
        /\ wio' = Issued(p, ok)
    /\ lastRet' = NoRet
    /\ UNCHANGED <<now, mirror, cvars, xvars>>

clearAllWishlistsDone(p) ==
    /\ wcall[p].pc = "wrote"
    /\ wcall[p].op = "clear"
    /\ IF wcall[p].wok
       THEN Finish(p, [kind |-> "null", val |-> << >>, p |-> 0], << >>, TRUE, "true")
       ELSE Finish(p, mirror, << >>, FALSE, "false")
    /\ UNCHANGED <<now, wstore, cvars, xvars>>

----------------------------------------------------------------------------
(* The Wishlist Store, one call after the other (a single caller) *)

WishNext ==
    \/ Tick
    \/ \E p \in {1} :
        \/ getWishlists(p)
        \/ getWishlistsDone(p)
        \/ \E name \in NameInputs : createWishlist(p, name)
        \/ createWishlistCont(p)
        \/ createWishlistDone(p)
        \/ \E id \in IdInputs : deleteWishlist(p, id)
        \/ deleteWishlistCont(p)
        \/ deleteWishlistDone(p)
        \/ \E id \in IdInputs, stock \in StockInputs : addStockToWishlist(p, id, stock)
        \/ addStockToWishlistCont(p)
        \/ addStockToWishlistDone(p)
        \/ \E id \in IdInputs, sym \in Symbols : removeStockFromWishlist(p, id, sym)
        \/ removeStockFromWishlistCont(p)
        \/ removeStockFromWishlistDone(p)
        \/ \E upd \in UpdateInputs : updateStockPrices(p, upd)
        \/ updateStockPricesCont(p)
        \/ updateStockPricesDone(p)
        \/ clearAllWishlists(p)
        \/ clearAllWishlistsDone(p)
        \/ setItem(p)

WishSpec == Init /\ [][WishNext]_vars

----------------------------------------------------------------------------
(* Wishlist Store: properties of calls made one after the other *)

Ids(arr) == {arr[i].id : i \in 1..Len(arr)}
SymbolsOf(w) == {w.stocks[j].symbol : j \in 1..Len(w.stocks)}

\* The identifier of a stock handed to addStock: `symbol`, else `ticker`
Identifier(stock) == OrElse(stock.symbol, stock.ticker)

\* Caller p takes the continuation after getWishlists in this step
ContStep(p, op) ==
    /\ wcall[p].pc = "read"
    /\ wcall[p].op = op
    /\ wcall'[p].pc # "read"

\* The setItem of caller p takes effect in this step
WriteOkStep(p, op) ==
    /\ wcall[p].pc = "write"
    /\ wcall[p].op = op
    /\ wcall'[p].pc = "wrote"
    /\ wcall'[p].wok

\* Caller p returns from a call whose write took effect
DoneStep(p, op) ==
    /\ wcall[p].pc = "wrote"
    /\ wcall[p].op = op
    /\ wcall[p].wok
    /\ wcall'[p].pc = "idle"

\* C5: an addStock to an existing list succeeds (goes on to write the
\* collection with the stock appended) when the list holds no stock with the
\* identifier of the stock given, and otherwise fails with the "already
\* exists" error, writing nothing.
C5_AddTwiceFails ==
    [][\A p \in WProcs :
        (ContStep(p, "add") /\ wcall[p].readOk
            /\ findIndex(wcall[p].arr, wcall[p].id) # 0) =>
          LET w == wcall[p].arr[findIndex(wcall[p].arr, wcall[p].id)]
          IN IF Identifier(wcall[p].stock) \in SymbolsOf(w)
             THEN /\ wcall'[p].pc = "idle"
                  /\ lastRet' = [p |-> p, op |-> "add", ok |-> FALSE,
                                 val |-> "Stock already exists in this wishlist"]
                  /\ wstore' = wstore
             ELSE wcall'[p].pc = "write"]_vars

\* C6: no wishlist of the persisted collection holds two stocks with the
\* same symbol.
C6_UniqueSymbols ==
    \A i \in 1..Len(Persisted) :
        \A j, k \in 1..Len(Persisted[i].stocks) :
            Persisted[i].stocks[j].symbol = Persisted[i].stocks[k].symbol => j = k

\* C7: a create whose write took effect leaves the previously persisted
\* collection with the new wishlist appended, a delete leaves it without
\* the entries of the given id; whatever the read inside the call returned.
C7_OwnChangeOnly ==
    [][\A p \in WProcs :
        /\ WriteOkStep(p, "create") =>
             /\ Len(Persisted') = Len(Persisted) + 1
             /\ SubSeq(Persisted', 1, Len(Persisted)) = Persisted
             /\ Persisted'[Len(Persisted')].id = wcall[p].new
        /\ WriteOkStep(p, "delete") =>
             Persisted' = filterWishlists(Persisted, wcall[p].id)]_vars

\* C9: no two wishlists of the persisted collection share an id.
C9_UniqueIds ==
    \A i, j \in 1..Len(Persisted) : Persisted[i].id = Persisted[j].id => i = j

\* C10: a delete of an id that is not in the collection, its store read and
\* write having succeeded, leaves the content of the persisted collection as
\* it was and returns true; after any such delete the id is not in the
\* collection, so a second delete of it changes nothing.
C10_IdempotentDelete ==
    [][\A p \in WProcs :
        /\ (WriteOkStep(p, "delete") /\ wcall[p].readOk) =>
             /\ wcall[p].id \notin Ids(Persisted) => Persisted' = Persisted
             /\ wcall[p].id \notin Ids(Persisted')
        /\ DoneStep(p, "delete") =>
             lastRet' = [p |-> p, op |-> "delete", ok |-> TRUE, val |-> "true"]]_vars

\* A delete of an absent id has just been written over a non-empty collection
C10_Witness ==
    \E p \in WProcs :
        /\ wcall[p].pc = "wrote"
        /\ wcall[p].op = "delete"
        /\ wcall[p].wok
        /\ wcall[p].readOk
        /\ Persisted # << >>
        /\ wcall[p].id \notin Ids(wcall[p].arr)

\* C17: a store write that is rejected during create, delete, addStock or
\* removeStock leaves the persisted collection as it is, and the call then
\* ends telling its caller so: create with the error "Failed to create
\* wishlist", addStock with the store's error, delete and removeStock with
\* false; a list() whose store read is rejected resolves with an empty
\* array.
C17_WriteFailureReported ==
    [][\A p \in WProcs :
        /\ (/\ wcall[p].op \in {"create", "delete", "add", "remove"}
            /\ wcall[p].pc = "write"
            /\ wcall'[p].pc = "wrote"
            /\ ~wcall'[p].wok) =>
                wstore' = wstore
        /\ (/\ wcall[p].op \in {"create", "delete", "add", "remove"}
            /\ wcall[p].pc = "wrote"
            /\ ~wcall[p].wok
            /\ wcall'[p].pc = "idle") =>
                /\ wstore' = wstore
                /\ lastRet' =
                    [p |-> p, op |-> wcall[p].op, ok |-> FALSE,
                     val |-> CASE wcall[p].op = "create" -> "Failed to create wishlist"
                               [] wcall[p].op = "add" -> "storage error"
                               [] OTHER -> "false"]
        /\ (ContStep(p, "list") /\ ~wcall[p].readOk) =>
                /\ wcall[p].arr = << >>
                /\ lastRet' = [p |-> p, op |-> "list", ok |-> TRUE, val |-> "array"]
                /\ wstore' = wstore]_vars

\* A create has ended with its error after its store write was rejected,
\* the collection persisted before it still in the store
C17_Witness ==
    /\ lastRet.op = "create"
    /\ ~lastRet.ok
    /\ lastRet.val = "Failed to create wishlist"
    /\ Persisted # << >>

\* C18: an addStock or removeStock whose wishlist id is not in the
\* collection ends with the error "Wishlist not found" and writes nothing.
C18_NotFound ==
    [][\A p \in WProcs :
        \A op \in {"add", "remove"} :
            (/\ ContStep(p, op)
             /\ wcall[p].readOk
             /\ wcall[p].id \notin Ids(Persisted)) =>
                /\ wcall'[p].pc = "idle"
                /\ lastRet' = [p |-> p, op |-> op, ok |-> FALSE,
                               val |-> "Wishlist not found"]
                /\ wstore' = wstore]_vars

----------------------------------------------------------------------------
(* The Wishlist Store under two callers whose calls overlap *)

RaceNames == {" Tech "}
RaceStocks == {s \in StockInputs : s.symbol = "AAPL"}

RaceNext ==
    \/ Tick
    \/ \E p \in WProcs :
        \/ \E name \in RaceNames : createWishlist(p, name)
        \/ createWishlistCont(p)
        \/ createWishlistDone(p)
        \/ \E id \in IdInputs : deleteWishlist(p, id)
        \/ deleteWishlistCont(p)
        \/ deleteWishlistDone(p)
        \/ \E id \in IdInputs, stock \in RaceStocks : addStockToWishlist(p, id, stock)
        \/ addStockToWishlistCont(p)
        \/ addStockToWishlistDone(p)
        \/ setItem(p)

RaceSpec == Init /\ [][RaceNext]_vars

\* C8: a write that takes effect replaces the whole persisted collection by
\* the writer's own copy (what it read, with its own change), whatever was
\* persisted in between, and the writer then reports success; no other step
\* of these calls changes the persisted collection.
C8_LastWriteWins ==
    [][\A p \in WProcs :
        /\ (wcall[p].pc = "write" /\ wcall'[p].pc = "wrote" /\ wcall'[p].wok) =>
             /\ wstore'.has
             /\ Persisted' = wcall[p].out
        /\ (wcall[p].pc = "wrote" /\ wcall[p].wok /\ wcall'[p].pc = "idle") =>
             /\ lastRet'.p = p
             /\ lastRet'.ok
        /\ (\A q \in WProcs : ~(wcall[q].pc = "write" /\ wcall'[q].pc = "wrote"))
             => wstore' = wstore]_vars

\* Both overlapping creates have written and are about to report success,
\* and the wishlist of the one that wrote first is not in the collection
C8_Witness ==
    \E p, q \in WProcs :
        /\ p # q
        /\ wcall[p].pc = "wrote" /\ wcall[p].op = "create" /\ wcall[p].wok
        /\ wcall[q].pc = "wrote" /\ wcall[q].op = "create" /\ wcall[q].wok
        /\ wcall[p].readOk /\ wcall[q].readOk
        /\ Persisted = wcall[q].out
        /\ wcall[p].new \notin Ids(Persisted)

----------------------------------------------------------------------------
(* Expiring Cache: get, remove, set, as steps of the call that uses them *)

KeyOfCall(p) == CacheKey(fcall[p].cat)

\* AsyncStorage.getItem(`cache_${key}`) delivers the stored string, or rejects
cacheGetItem(p) ==
    /\ fcall[p].pc = "getItem"
    /\ \E ok \in BOOLEAN :
        fcall' = [fcall EXCEPT ![p].pc = "gotItem", ![p].readOk = ok,
                               ![p].item = IF ok THEN cstore[KeyOfCall(p)] ELSE NoItem]
    /\ UNCHANGED <<now, wvars, cstore, xvars>>

ExpiredAtBoundary(item, t) == t >= item.expiration

\* `now > expiration`: the entry read is past its TTL at clock reading t
Expired(item, t) == t > item.expiration

\* What get makes of the item it read: "error" (getItem rejected or
\* JSON.parse threw, caught), "none" (nothing stored), "stale" (expired: get
\* goes on to remove it and then returns null) or "fresh" (get returns the
\* data)
Found(call, t) ==
    IF ~call.readOk THEN "error"
    ELSE IF ~call.item.has THEN "none"
    ELSE IF ~Decodable(call.item) THEN "error"
    ELSE IF Expired(call.item, t) THEN "stale"
    ELSE "fresh"

LastResortData(call, t) == Data(getFallbackData(t))

LastResortRaise(call, t) == Raise(call.err)

\* The last resort of a fetch whose Gateway call failed and whose cache
\* lookup returned nothing: the movers list returns getFallbackData(), the
\* other categories throw
LastResort(call, t) ==
    IF call.cat = "movers" THEN Data(getFallbackData(t)) ELSE Raise(call.err)

\* AfterMiss with the last resort of a movers fetch written to the cache
\* before it is returned
AfterMissCaching(call, t) ==
    IF call.op = "get" THEN [call EXCEPT !.pc = "done", !.ret = Null]
    ELSE IF call.phase = 1 THEN [call EXCEPT !.pc = "api"]
    ELSE IF call.phase = 2 /\ call.cat # "movers"
    THEN [call EXCEPT !.pc = "getItem", !.phase = 3, !.err = call.resp.error]
    ELSE IF call.cat = "movers"
    THEN [call EXCEPT !.pc = "setItem",
                      !.entry = [has |-> TRUE, data |-> getFallbackData(t),
                                 timestamp |-> t, expiration |-> t + STOCK_DATA]]
    ELSE [call EXCEPT !.pc = "done", !.ret = LastResort(call, t)]

\* The caller goes on after get returned null
AfterMiss(call, t) ==
    IF call.op = "get" THEN [call EXCEPT !.pc = "done", !.ret = Null]
    ELSE IF call.phase = 1 THEN [call EXCEPT !.pc = "api"]
    ELSE IF call.phase = 2 /\ call.cat # "movers"
    THEN \* throw new Error(response.error || ...), caught: the third lookup
         [call EXCEPT !.pc = "getItem", !.phase = 3, !.err = call.resp.error]
    ELSE [call EXCEPT !.pc = "done", !.ret = LastResort(call, t)]

AfterHitRequest(call) == [call EXCEPT !.pc = "api"]

\* The caller goes on after get returned the data
AfterHit(call) == [call EXCEPT !.pc = "done", !.ret = Data(call.item.data)]

\* get, after getItem: parse, compare the clock with the expiration
cacheGetCont(p) ==
    /\ fcall[p].pc = "gotItem"
    /\ LET call == [fcall[p] EXCEPT !.saw = Found(fcall[p], now)]
       IN fcall' = [fcall EXCEPT ![p] =
            CASE call.saw = "fresh" -> AfterHit(call)
              [] call.saw = "stale" -> [call EXCEPT !.pc = "removeItem"]
              [] OTHER -> AfterMiss(call, now)]
    /\ UNCHANGED <<now, wvars, cstore, xvars>>

\* remove(key) inside get: AsyncStorage.removeItem takes effect, or rejects
\* and is logged; get then returns null
cacheRemoveItem(p) ==
    /\ fcall[p].pc = "removeItem"
    /\ \E ok \in BOOLEAN :
        /\ cstore' = IF ok THEN [cstore EXCEPT ![KeyOfCall(p)] = NoItem] ELSE cstore
        /\ fcall' = [fcall EXCEPT ![p] = AfterMiss([fcall[p] EXCEPT !.wOk = ok], now)]
    /\ UNCHANGED <<now, wvars, xvars>>

\* set with its expirationMs argument ignored (DEFAULT_EXPIRATION always)
cacheItemDefaultTTL(data, t, expirationMs) ==
    [has |-> TRUE, data |-> data, timestamp |-> t, expiration |-> t + 5 * 60 * 1000]

\* set: the cacheItem built at clock reading t
cacheItem(data, t, expirationMs) ==
    [has |-> TRUE, data |-> data, timestamp |-> t, expiration |-> t + expirationMs]

\* AsyncStorage.setItem of set takes effect, or rejects and is logged; the
\* fetch then returns the data it fetched
cacheSetItem(p) ==
    /\ fcall[p].pc = "setItem"
    /\ \E ok \in BOOLEAN :
        /\ cstore' = IF ok THEN [cstore EXCEPT ![KeyOfCall(p)] = fcall[p].entry]
                           ELSE cstore
        /\ fcall' = [fcall EXCEPT ![p].pc = "done", ![p].wOk = ok,
                                  ![p].ret = Data(fcall[p].entry.data)]
    /\ UNCHANGED <<now, wvars, xvars>>

\* a direct cacheService.get(key)
cacheGet(p, cat) ==
    /\ fcall[p].pc = "idle"
    /\ fcall' = [fcall EXCEPT ![p] =
                    [IdleFetch EXCEPT !.pc = "getItem", !.op = "get", !.cat = cat]]
    /\ UNCHANGED <<now, wvars, cstore, xvars>>

----------------------------------------------------------------------------
(* Stock Data Orchestrator: fetchTopGainersLosers, fetchCompanyOverview,   *)
(* fetchStockChart                                                         *)

\* the call starts: the first cache lookup, or with forceRefresh the request
fetch(p, cat, forceRefresh) ==
    /\ fcall[p].pc = "idle"
    /\ fcall' = [fcall EXCEPT ![p] =
                    [IdleFetch EXCEPT !.op = "fetch", !.cat = cat,
                                      !.force = forceRefresh,
                                      !.pc = IF forceRefresh THEN "api" ELSE "getItem",
                                      !.phase = IF forceRefresh THEN 0 ELSE 1]]
    /\ UNCHANGED <<now, wvars, cstore, xvars>>

\* the reshaping of a success envelope's data throws
ReshapeThrows(cat, data) ==
    CASE cat = "movers" -> formatStockDataThrows(data)
      [] cat = "overview" -> FALSE
      [] cat = "chart" -> formatChartDataThrows(data)

Reshape(cat, data, t) ==
    CASE cat = "movers" -> formatStockData(data)
      [] cat = "overview" -> data
      [] cat = "chart" -> formatChartData(data, "1M", t)

ReshapeError(cat) ==
    IF cat = "chart" THEN "Failed to format chart data" ELSE "TypeError"

AfterRequestNoCatch(call, resp, t) ==
    LET c == [call EXCEPT !.resp = resp, !.called = TRUE]
    IN IF resp.rejected \/ (resp.success /\ ReshapeThrows(c.cat, resp.data))
       THEN [c EXCEPT !.pc = "done", !.ret = Raise(resp.error)]
       ELSE IF ~resp.success
       THEN [c EXCEPT !.pc = "getItem", !.phase = 2]
       ELSE [c EXCEPT !.pc = "setItem",
                      !.entry = cacheItem(Reshape(c.cat, resp.data, t), t, TTL(c.cat))]

\* the Gateway call settles and the fetch goes on
AfterRequest(call, resp, t) ==
    LET c == [call EXCEPT !.resp = resp, !.called = TRUE]
    IN IF resp.rejected
       THEN [c EXCEPT !.pc = "getItem", !.phase = 3, !.err = resp.error]
       ELSE IF ~resp.success
       THEN [c EXCEPT !.pc = "getItem", !.phase = 2]
       ELSE IF ReshapeThrows(c.cat, resp.data)
       THEN [c EXCEPT !.pc = "getItem", !.phase = 3, !.err = ReshapeError(c.cat)]
       ELSE [c EXCEPT !.pc = "setItem",
                      !.entry = cacheItem(Reshape(c.cat, resp.data, t), t, TTL(c.cat))]

apiReturn(p) ==
    /\ fcall[p].pc = "api"
    /\ \E t \in Transports(fcall[p].cat) :
        fcall' = [fcall EXCEPT ![p] = AfterRequest(fcall[p], makeRequest(t), now)]
    /\ UNCHANGED <<now, wvars, cstore, xvars>>

\* the caller has its result; the slot is free again
fetchReturn(p) ==
    /\ fcall[p].pc = "done"
    /\ fcall' = [fcall EXCEPT ![p] = IdleFetch]
    /\ UNCHANGED <<now, wvars, cstore, xvars>>

\* Time passes up to the expiration of a stored entry, or just past it
Elapse ==
    /\ now <= MaxClock
    /\ \E k \in HouseKeys, d \in {0, 1} :
        /\ cstore[k].has
        /\ Decodable(cstore[k])
        /\ cstore[k].expiration + d > now
        /\ now' = cstore[k].expiration + d
    /\ UNCHANGED <<wvars, cvars, xvars>>

FetchNext ==
    \/ Tick
    \/ Elapse
    \/ \E p \in {1} :
        \/ \E cat \in Categories, forceRefresh \in BOOLEAN : fetch(p, cat, forceRefresh)
        \/ \E cat \in Categories : cacheGet(p, cat)
        \/ cacheGetItem(p)
        \/ cacheGetCont(p)
        \/ cacheRemoveItem(p)
        \/ apiReturn(p)
        \/ cacheSetItem(p)
        \/ fetchReturn(p)

FetchSpec == Init /\ [][FetchNext]_vars

----------------------------------------------------------------------------
(* Expiring Cache and Orchestrator: properties of calls made one after the *)
(* other                                                                   *)

\* Caller p's get compares the clock with the item it read in this step
GetContStep(p) ==
    /\ fcall[p].pc = "gotItem"
    /\ fcall'[p].pc # "gotItem"

GatewayFailed(call) == call.called /\ ~call.resp.success

\* C1: a direct get whose store accesses succeed returns the stored payload
\* when an entry exists and now <= expiration; when an entry exists and
\* now > expiration it removes the entry and returns null; when no entry
\* exists it returns null.
C1_GetTTL ==
    [][\A p \in FProcs :
        LET k == KeyOfCall(p) IN
        /\ (GetContStep(p) /\ fcall[p].op = "get" /\ fcall[p].readOk) =>
            /\ (cstore[k].has /\ now <= cstore[k].expiration) =>
                 /\ fcall'[p].pc = "done"
                 /\ fcall'[p].ret = Data(cstore[k].data)
                 /\ cstore' = cstore
            /\ (cstore[k].has /\ now > cstore[k].expiration) =>
                 fcall'[p].pc = "removeItem"
            /\ ~cstore[k].has =>
                 /\ fcall'[p].pc = "done"
                 /\ fcall'[p].ret = Null
        /\ (fcall[p].pc = "removeItem" /\ fcall[p].op = "get"
                /\ fcall'[p].pc # "removeItem" /\ fcall'[p].wOk) =>
            /\ fcall'[p].pc = "done"
            /\ fcall'[p].ret = Null
            /\ ~cstore'[k].has]_vars

\* A direct get has returned the payload at the very reading of expiration
C1_Witness ==
    \E p \in FProcs :
        /\ fcall[p].op = "get"
        /\ fcall[p].pc = "done"
        /\ fcall[p].item.has
        /\ now = fcall[p].item.expiration
        /\ fcall[p].ret = Data(fcall[p].item.data)

\* C2: the cache lookup a fetch makes after its Gateway call failed returns
\* the entry it finds even when the entry's TTL has expired, and leaves it
\* in the store.
C2_StaleFallback ==
    [][\A p \in FProcs :
        (/\ GetContStep(p)
         /\ fcall[p].op = "fetch"
         /\ fcall[p].phase >= 2
         /\ GatewayFailed(fcall[p])
         /\ fcall[p].readOk
         /\ fcall[p].item.has
         /\ now > fcall[p].item.expiration) =>
            /\ fcall'[p].pc = "done"
            /\ fcall'[p].ret = Data(fcall[p].item.data)]_vars

\* C3: when the Gateway call of a movers fetch failed and the store holds no
\* entry for the movers key, the lookup ends the fetch with the fallback
\* dataset: AAPL, GOOGL, MSFT, TSLA with ids 1..4, the first three as
\* gainers, the last three as losers; no error is raised.
C3_MoversFallback ==
    [][\A p \in FProcs :
        (/\ GetContStep(p)
         /\ fcall[p].op = "fetch"
         /\ fcall[p].cat = "movers"
         /\ GatewayFailed(fcall[p])
         /\ ~cstore[CacheKey("movers")].has) =>
            /\ fcall'[p].pc = "done"
            /\ fcall'[p].ret.kind = "data"
            /\ LET d == fcall'[p].ret.data
               IN /\ [i \in 1..Len(d.mostActive) |-> d.mostActive[i].ticker]
                        = << "AAPL", "GOOGL", "MSFT", "TSLA" >>
                  /\ [i \in 1..Len(d.mostActive) |-> d.mostActive[i].id]
                        = << 1, 2, 3, 4 >>
                  /\ d.topGainers = SubSeq(d.mostActive, 1, 3)
                  /\ d.topLosers = SubSeq(d.mostActive, 2, 4)]_vars

\* A movers fetch has ended with the fallback dataset after a failed
\* Gateway call and an empty cache
C3_Witness ==
    \E p \in FProcs :
        /\ fcall[p].op = "fetch"
        /\ fcall[p].cat = "movers"
        /\ fcall[p].pc = "done"
        /\ GatewayFailed(fcall[p])
        /\ fcall[p].saw = "none"
        /\ fcall[p].ret.kind = "data"
        /\ fcall[p].ret.data.mostActive = dummyStocks

\* C4: a movers fetch never ends with an error: whenever it has ended it
\* holds a dataset, and while it is in flight it has a next step.
C4_MoversNeverRaises ==
    \A p \in FProcs :
        (fcall[p].op = "fetch" /\ fcall[p].cat = "movers") =>
            /\ fcall[p].ret.kind # "error"
            /\ fcall[p].pc = "done" => fcall[p].ret.kind = "data"
            /\ fcall[p].pc # "done" =>
                 ENABLED (cacheGetItem(p) \/ cacheGetCont(p) \/ cacheRemoveItem(p)
                            \/ apiReturn(p) \/ cacheSetItem(p))

\* A movers fetch has ended with a dataset although the Gateway's payload
\* could not be reshaped and the store read failed
C4_Witness ==
    \E p \in FProcs :
        /\ fcall[p].op = "fetch"
        /\ fcall[p].cat = "movers"
        /\ fcall[p].pc = "done"
        /\ fcall[p].resp.success
        /\ fcall[p].phase = 3
        /\ ~fcall[p].readOk
        /\ fcall[p].ret.kind = "data"

----------------------------------------------------------------------------
(* Market Data Gateway and Orchestrator: further properties of calls made   *)
(* one after the other                                                      *)

\* C11: makeRequest always resolves with an envelope: no Gateway call a fetch
\* has made was rejected, and every failure, the timeout included, is an
\* envelope {success: false, error, status} with a message and a status.
C11_AlwaysResolves ==
    \A p \in FProcs :
        fcall[p].called =>
            /\ ~fcall[p].resp.rejected
            /\ ~fcall[p].resp.success =>
                 (fcall[p].resp.error # "" /\ fcall[p].resp.status # 0)

\* C12: a fetch with forceRefresh = false whose first lookup finds a fresh
\* entry under its key ends with that entry's payload and has issued no
\* Gateway request; a fetch with forceRefresh = true starts with the Gateway
\* request, with no cache lookup before it.
C12_FreshHitBypassesGateway ==
    [][\A p \in FProcs :
        LET k == KeyOfCall(p) IN
        /\ (/\ GetContStep(p)
            /\ fcall[p].op = "fetch"
            /\ ~fcall[p].force
            /\ fcall[p].phase = 1
            /\ fcall[p].readOk
            /\ cstore[k].has
            /\ now <= cstore[k].expiration) =>
                /\ fcall'[p].pc = "done"
                /\ fcall'[p].ret = Data(cstore[k].data)
                /\ ~fcall'[p].called
                /\ cstore' = cstore
        /\ (fcall[p].pc = "idle" /\ fcall'[p].op = "fetch" /\ fcall'[p].force) =>
                /\ fcall'[p].pc = "api"
                /\ fcall'[p].saw = "none"
        /\ (/\ fcall[p].op = "fetch"
            /\ fcall[p].force
            /\ ~fcall[p].called
            /\ fcall'[p] # fcall[p]) =>
                fcall'[p].called]_vars

\* A fetch without forceRefresh has ended on a fresh entry, with no Gateway
\* request made
C12_Witness ==
    \E p \in FProcs :
        /\ fcall[p].op = "fetch"
        /\ ~fcall[p].force
        /\ fcall[p].pc = "done"
        /\ fcall[p].saw = "fresh"
        /\ ~fcall[p].called
        /\ fcall[p].ret = Data(fcall[p].item.data)
        /\ now < fcall[p].item.expiration

\* C13: when the Gateway call succeeds and the payload is reshaped, the fetch
\* builds the entry {data, timestamp = now, expiration = now + TTL} (movers
\* 5 min, fundamentals 30 min, chart 10 min); the store write that succeeds
\* puts exactly that entry under the category's key and the fetch returns
\* the entry's payload; a later fetch without forceRefresh that reads the
\* entry at a clock reading <= expiration returns the stored payload and
\* makes no Gateway request, and at a reading > expiration it removes the
\* entry and goes to the Gateway.
C13_WriteThenServe ==
    [][\A p \in FProcs :
        LET k == KeyOfCall(p)
            call == fcall[p]
            ttl == CASE call.cat = "movers" -> 300000
                     [] call.cat = "overview" -> 1800000
                     [] call.cat = "chart" -> 600000
        IN
        /\ (/\ call.op = "fetch"
            /\ call.pc = "api"
            /\ fcall'[p].pc # "api"
            /\ fcall'[p].resp.success
            /\ ~ReshapeThrows(call.cat, fcall'[p].resp.data)) =>
                /\ fcall'[p].pc = "setItem"
                /\ fcall'[p].entry.has
                /\ fcall'[p].entry.timestamp = now
                /\ fcall'[p].entry.expiration = now + ttl
                /\ fcall'[p].entry.data = Reshape(call.cat, fcall'[p].resp.data, now)
        /\ (call.pc = "setItem" /\ fcall'[p].pc # "setItem") =>
                /\ fcall'[p].pc = "done"
                /\ fcall'[p].ret = Data(call.entry.data)
                /\ fcall'[p].wOk => cstore' = [cstore EXCEPT ![k] = call.entry]
        /\ (/\ GetContStep(p)
            /\ call.op = "fetch"
            /\ ~call.force
            /\ call.phase = 1
            /\ call.readOk
            /\ cstore[k].has) =>
                /\ now <= cstore[k].expiration =>
                    /\ fcall'[p].pc = "done"
                    /\ fcall'[p].ret = Data(cstore[k].data)
                    /\ ~fcall'[p].called
                /\ now > cstore[k].expiration =>
                    fcall'[p].pc = "removeItem"
        /\ (/\ call.op = "fetch"
            /\ call.phase = 1
            /\ call.pc = "removeItem"
            /\ fcall'[p].pc # "removeItem") =>
                fcall'[p].pc = "api"]_vars

\* A chart fetch without forceRefresh has been served the cached payload at
\* the very reading of the entry's expiration, ten minutes after its creation
C13_Witness ==
    \E p \in FProcs :
        /\ fcall[p].op = "fetch"
        /\ fcall[p].cat = "chart"
        /\ ~fcall[p].force
        /\ fcall[p].pc = "done"
        /\ fcall[p].saw = "fresh"
        /\ ~fcall[p].called
        /\ fcall[p].item.expiration = fcall[p].item.timestamp + 600000
        /\ now = fcall[p].item.expiration
        /\ fcall[p].ret = Data(fcall[p].item.data)

\* C14: in a fundamentals or chart fetch whose Gateway call failed, a lookup
\* that finds nothing stored under the key leads to the error: the lookup
\* after the failure envelope throws the envelope's message and the lookup
\* of the catch clause ends the fetch with that error; the store is left as
\* it is, and an error is only ever raised from a cache lookup.
C14_PropagatesAfterFallback ==
    [][\A p \in FProcs :
        LET k == KeyOfCall(p)
            call == fcall[p]
        IN
        /\ (/\ GetContStep(p)
            /\ call.op = "fetch"
            /\ call.cat \in {"overview", "chart"}
            /\ GatewayFailed(call)
            /\ ~cstore[k].has) =>
                /\ cstore' = cstore
                /\ call.phase = 2 =>
                    /\ fcall'[p].pc = "getItem"
                    /\ fcall'[p].phase = 3
                    /\ fcall'[p].err = call.resp.error
                /\ call.phase = 3 =>
                    /\ fcall'[p].pc = "done"
                    /\ fcall'[p].ret = Raise(call.resp.error)
        /\ (/\ call.op = "fetch"
            /\ call.pc # "done"
            /\ fcall'[p].pc = "done"
            /\ fcall'[p].ret.kind = "error") =>
                /\ call.pc \in {"gotItem", "removeItem"}
                /\ call.phase = 3]_vars

\* A fundamentals or chart fetch has ended with the Gateway's error message
\* after its Gateway call failed and both fallback lookups found nothing
C14_Witness ==
    \E p \in FProcs :
        /\ fcall[p].op = "fetch"
        /\ fcall[p].cat \in {"overview", "chart"}
        /\ fcall[p].pc = "done"
        /\ GatewayFailed(fcall[p])
        /\ ~fcall[p].resp.rejected
        /\ fcall[p].phase = 3
        /\ fcall[p].saw = "none"
        /\ ~cstore[KeyOfCall(p)].has
        /\ fcall[p].ret = Raise(fcall[p].resp.error)
        /\ fcall[p].resp.error # ""

\* C15: a chart fetch whose Gateway call succeeded with a payload that has
\* none of the known time-series blocks ends with the formatting error,
\* whatever forceRefresh was and whatever the cache holds, and the step that
\* ends it leaves the store as it is.
C15_ChartFormatError ==
    [][\A p \in FProcs :
        (/\ fcall[p].op = "fetch"
         /\ fcall[p].cat = "chart"
         /\ fcall[p].pc # "done"
         /\ fcall'[p].pc = "done"
         /\ fcall'[p].resp.success
         /\ formatChartDataThrows(fcall'[p].resp.data)) =>
            /\ fcall'[p].ret = Raise("Failed to format chart data")
            /\ cstore' = cstore]_vars

----------------------------------------------------------------------------
(* Expiring Cache: set, remove, isValid, getAge, clearAll, clearExpired and *)
(* getStats called directly, one call after the other                       *)

\* What a housekeeping call resolves with
Void == [kind |-> "undefined"]
Bool(b) == [kind |-> "boolean", value |-> b]
Age(ms) == [kind |-> "age", ms |-> ms]
NullRet == [kind |-> "null"]
Stats(t, v, e) ==
    [kind |-> "stats", totalItems |-> t, validItems |-> v, expiredItems |-> e]
CaughtRethrow(op) == [kind |-> "error"]

\* What the catch clause of each operation resolves with
Caught(op) ==
    CASE op = "isValid" -> Bool(FALSE)
      [] op = "getAge" -> NullRet
      [] op = "getStats" -> Stats(0, 0, 0)
      [] OTHER -> Void

StillValidStrict(item, t) == t < item.expiration

\* Date.now() <= expiration
StillValid(item, t) == t <= item.expiration

\* the payload of a direct set
SetData == [note |-> "payload"]

NoCallInFlight == hcall.pc = "idle" /\ \A p \in FProcs : fcall[p].pc = "idle"

\* set(key, data): the cacheItem is built, then AsyncStorage.setItem awaited
cacheSet(k) ==
    /\ NoCallInFlight
    /\ now <= MaxClock
    /\ hcall' = [IdleHouse EXCEPT !.pc = "setItem", !.op = "set", !.key = k,
                                  !.entry = cacheItem(SetData, now, DEFAULT_EXPIRATION)]
    /\ UNCHANGED <<now, wvars, cvars, scall, pcall>>

\* remove(key)
cacheRemove(k) ==
    /\ NoCallInFlight
    /\ hcall' = [IdleHouse EXCEPT !.pc = "removeItem", !.op = "remove", !.key = k]
    /\ UNCHANGED <<now, wvars, cvars, scall, pcall>>

isValid(k) ==
    /\ NoCallInFlight
    /\ hcall' = [IdleHouse EXCEPT !.pc = "getItem", !.op = "isValid", !.key = k]
    /\ UNCHANGED <<now, wvars, cvars, scall, pcall>>

getAge(k) ==
    /\ NoCallInFlight
    /\ hcall' = [IdleHouse EXCEPT !.pc = "getItem", !.op = "getAge", !.key = k]
    /\ UNCHANGED <<now, wvars, cvars, scall, pcall>>

clearAll ==
    /\ NoCallInFlight
    /\ hcall' = [IdleHouse EXCEPT !.pc = "getAllKeys", !.op = "clearAll"]
    /\ UNCHANGED <<now, wvars, cvars, scall, pcall>>

clearExpired ==
    /\ NoCallInFlight
    /\ hcall' = [IdleHouse EXCEPT !.pc = "getAllKeys", !.op = "clearExpired"]
    /\ UNCHANGED <<now, wvars, cvars, scall, pcall>>

getStats ==
    /\ NoCallInFlight
    /\ hcall' = [IdleHouse EXCEPT !.pc = "getAllKeys", !.op = "getStats"]
    /\ UNCHANGED <<now, wvars, cvars, scall, pcall>>

\* the call ends in its catch clause
Fail(call) == [call EXCEPT !.pc = "done", !.ok = FALSE, !.ret = Caught(call.op)]

\* AsyncStorage.setItem of a direct set takes effect, or rejects
houseSetItem ==
    /\ hcall.pc = "setItem"
    /\ \E ok \in BOOLEAN :
        /\ cstore' = IF ok THEN [cstore EXCEPT ![hcall.key] = hcall.entry] ELSE cstore
        /\ hcall' = IF ok THEN [hcall EXCEPT !.pc = "done", !.ret = Void]
                          ELSE Fail(hcall)
    /\ UNCHANGED <<now, wvars, fcall, scall, pcall>>

\* AsyncStorage.removeItem of a direct remove takes effect, or rejects
houseRemoveItem ==
    /\ hcall.pc = "removeItem"
    /\ \E ok \in BOOLEAN :
        /\ cstore' = IF ok THEN [cstore EXCEPT ![hcall.key] = NoItem] ELSE cstore
        /\ hcall' = IF ok THEN [hcall EXCEPT !.pc = "done", !.ret = Void]
                          ELSE Fail(hcall)
    /\ UNCHANGED <<now, wvars, fcall, scall, pcall>>

\* isValid and getAge: getItem, JSON.parse, the comparison with the clock
houseGetItem ==
    /\ hcall.pc = "getItem"
    /\ \E ok \in BOOLEAN :
        LET item == cstore[hcall.key] IN
        hcall' =
            IF ~ok \/ (item.has /\ ~Decodable(item)) THEN Fail(hcall)
            ELSE IF ~item.has
            THEN [hcall EXCEPT !.pc = "done",
                               !.ret = IF hcall.op = "isValid" THEN Bool(FALSE)
                                                               ELSE NullRet]
            ELSE [hcall EXCEPT !.pc = "done",
                               !.ret = IF hcall.op = "isValid"
                                       THEN Bool(StillValid(item, now))
                                       ELSE Age(now - item.timestamp)]
    /\ UNCHANGED <<now, wvars, cstore, fcall, scall, pcall>>

\* after the loop over cacheKeys
EndScan(call) ==
    IF call.op = "getStats"
    THEN [call EXCEPT !.pc = "done",
                      !.ret = Stats(call.totalItems, call.validItems, call.expiredItems)]
    ELSE IF call.expiredKeys # << >>
    THEN [call EXCEPT !.pc = "multiRemove"]
    ELSE [call EXCEPT !.pc = "done", !.ret = Void]

CACHE_PREFIX == "cache_"
WISHLIST_KEY == "stock_wishlists"

\* the prefix matches everything
startsWithAnything(s, prefix) == TRUE

\* String.prototype.startsWith
startsWith(s, prefix) ==
    Len(s) >= Len(prefix) /\ SubSeq(s, 1, Len(prefix)) = prefix

\* The AsyncStorage key of a stored entry: `${CACHE_PREFIX}${key}` for the
\* cache entry of that key, WISHLIST_KEY for the wishlist collection
StorageKey(n) == IF n = WISHLIST_KEY THEN WISHLIST_KEY ELSE CACHE_PREFIX \o n

\* AsyncStorage.getAllKeys(): the entries the store holds, the wishlist
\* collection among them
getAllKeys ==
    (IF wstore.has THEN << WISHLIST_KEY >> ELSE << >>)
        \o SelectSeq(KeyOrder, LAMBDA k : cstore[k].has)

\* AsyncStorage.getAllKeys, filtered by the prefix 'cache_'
houseGetAllKeys ==
    /\ hcall.pc = "getAllKeys"
    /\ \E ok \in BOOLEAN :
        LET cacheKeys == SelectSeq(getAllKeys,
                                   LAMBDA n : startsWith(StorageKey(n), CACHE_PREFIX))
            call == [hcall EXCEPT !.keys = cacheKeys]
        IN hcall' =
            IF ~ok THEN Fail(hcall)
            ELSE IF hcall.op = "clearAll"
            THEN IF cacheKeys # << >>
                 THEN [call EXCEPT !.pc = "multiRemove", !.expiredKeys = cacheKeys]
                 ELSE [call EXCEPT !.pc = "done", !.ret = Void]
            ELSE IF cacheKeys # << >>
            THEN [call EXCEPT !.pc = "scan", !.idx = 1]
            ELSE EndScan(call)
    /\ UNCHANGED <<now, wvars, cstore, fcall, scall, pcall>>

\* one turn of the loop `for (const key of cacheKeys)`: getItem, JSON.parse,
\* the comparison with the clock
houseScan ==
    /\ hcall.pc = "scan"
    /\ \E ok \in BOOLEAN :
        LET key == hcall.keys[hcall.idx]
            \* a stored value that is no cache item has no `expiration`:
            \* both comparisons with the clock are false
            isItem == key # WISHLIST_KEY
            has == IF isItem THEN cstore[key].has ELSE wstore.has
            counted ==
                IF ~has THEN hcall
                ELSE IF hcall.op = "clearExpired"
                THEN IF isItem /\ Expired(cstore[key], now)
                     THEN [hcall EXCEPT !.expiredKeys = Append(hcall.expiredKeys, key)]
                     ELSE hcall
                ELSE IF isItem /\ StillValid(cstore[key], now)
                THEN [hcall EXCEPT !.totalItems = @ + 1, !.validItems = @ + 1]
                ELSE [hcall EXCEPT !.totalItems = @ + 1, !.expiredItems = @ + 1]
        IN hcall' =
            IF ~ok \/ (isItem /\ has /\ ~Decodable(cstore[key])) THEN Fail(hcall)
            ELSE IF hcall.idx < Len(hcall.keys)
            THEN [counted EXCEPT !.idx = @ + 1]
            ELSE EndScan(counted)
    /\ UNCHANGED <<now, wvars, cstore, fcall, scall, pcall>>

\* AsyncStorage.multiRemove takes effect, or rejects
houseMultiRemove ==
    /\ hcall.pc = "multiRemove"
    /\ \E ok \in BOOLEAN :
        /\ cstore' = IF ok
                     THEN [k \in HouseKeys |->
                             IF k \in Range(hcall.expiredKeys) THEN NoItem ELSE cstore[k]]
                     ELSE cstore
        /\ wstore' = IF ok /\ WISHLIST_KEY \in Range(hcall.expiredKeys)
                     THEN [has |-> FALSE, val |-> << >>]
                     ELSE wstore
        /\ hcall' = IF ok THEN [hcall EXCEPT !.pc = "done", !.ret = Void]
                          ELSE Fail(hcall)
    /\ UNCHANGED <<now, mirror, wcall, lastRet, wio, fcall, scall, pcall>>

\* the caller has its result
houseReturn ==
    /\ hcall.pc = "done"
    /\ hcall' = IdleHouse
    /\ UNCHANGED <<now, wvars, cvars, scall, pcall>>

\* A stored entry is damaged: what the store holds under the key no longer
\* decodes
Corrupt(k) ==
    /\ NoCallInFlight
    /\ cstore[k].has
    /\ Decodable(cstore[k])
    /\ cstore' = [cstore EXCEPT ![k] = BadItem]
    /\ UNCHANGED <<now, wvars, fcall, xvars>>

HouseStep ==
    \/ houseSetItem
    \/ houseRemoveItem
    \/ houseGetItem
    \/ houseGetAllKeys
    \/ houseScan
    \/ houseMultiRemove

CacheNext ==
    \/ Tick
    \/ Elapse
    \/ \E k \in HouseKeys : Corrupt(k)
    \/ \E k \in HouseKeys : cacheSet(k)
    \/ \E k \in HouseKeys : cacheRemove(k)
    \/ \E k \in HouseKeys : isValid(k)
    \/ \E k \in HouseKeys : getAge(k)
    \/ clearAll
    \/ clearExpired
    \/ getStats
    \/ houseSetItem
    \/ houseRemoveItem
    \/ houseGetItem
    \/ houseGetAllKeys
    \/ houseScan
    \/ houseMultiRemove
    \/ houseReturn
    \/ \E cat \in Categories : (hcall.pc = "idle" /\ cacheGet(1, cat))
    \/ cacheGetItem(1)
    \/ cacheGetCont(1)
    \/ cacheRemoveItem(1)
    \/ fetchReturn(1)

CacheSpec == Init /\ [][CacheNext]_vars

----------------------------------------------------------------------------
(* Expiring Cache: properties of the direct calls *)

\* caller-visible end of a housekeeping step that went through a catch clause
HouseFailStep == hcall.pc \notin {"idle", "done"} /\ hcall' # hcall /\ ~hcall'.ok

\* C16: no cache operation raises, whatever store access is rejected and
\* whatever stored entry fails to decode: a call in flight always has a
\* next step and never holds an error; the step in which a store access is
\* rejected or an entry fails to decode ends the call with the store left
\* as it is, set, remove, clearAll and clearExpired resolving with nothing,
\* isValid with false, getAge with null, getStats with a result (all zero);
\* get then returns null.
C16_CacheNeverRaises ==
    [][/\ hcall'.ret.kind # "error"
       /\ hcall.pc \notin {"idle", "done"} => ENABLED HouseStep
       /\ HouseFailStep =>
            /\ cstore' = cstore
            /\ hcall'.pc = "done"
            /\ hcall'.ret =
                CASE hcall.op = "isValid" -> [kind |-> "boolean", value |-> FALSE]
                  [] hcall.op = "getAge" -> [kind |-> "null"]
                  [] hcall.op = "getStats" ->
                        [kind |-> "stats", totalItems |-> 0, validItems |-> 0,
                         expiredItems |-> 0]
                  [] OTHER -> [kind |-> "undefined"]
       /\ \A p \in FProcs :
            /\ (/\ GetContStep(p)
                /\ fcall[p].op = "get"
                /\ \/ ~fcall[p].readOk
                   \/ (fcall[p].item.has /\ ~Decodable(fcall[p].item))) =>
                    /\ fcall'[p].pc = "done"
                    /\ fcall'[p].ret = Null
                    /\ cstore' = cstore
            /\ (/\ fcall[p].op = "get"
                /\ fcall[p].pc = "removeItem"
                /\ fcall'[p].pc # "removeItem"
                /\ ~fcall'[p].wOk) =>
                    /\ fcall'[p].pc = "done"
                    /\ fcall'[p].ret = Null
                    /\ cstore' = cstore
            /\ fcall'[p].ret.kind # "error"]_vars

\* getStats has resolved with the all-zero result after the entry it was
\* scanning failed to decode
C16_Witness ==
    /\ hcall.op = "getStats"
    /\ hcall.pc = "done"
    /\ ~hcall.ok
    /\ hcall.idx >= 1
    /\ cstore[hcall.keys[hcall.idx]] = BadItem
    /\ hcall.totalItems >= 1
    /\ hcall.ret = Stats(0, 0, 0)

\* the stored entries, and those of them within / past their TTL at reading t
StoredEntries == {k \in HouseKeys : cstore[k].has}
ValidAt(t) == {k \in StoredEntries : t <= cstore[k].expiration}
ExpiredAt(t) == {k \in StoredEntries : t > cstore[k].expiration}

\* C19: getStats visits every stored cache entry once, in one turn of its
\* loop each: the turn adds one to totalItems, and one to validItems when
\* now <= expiration, otherwise one to expiredItems; no step of getStats
\* changes the store; the result of a scan in which every read succeeded and
\* every entry decoded has totalItems = the number of stored entries =
\* validItems + expiredItems, every entry within its TTL when the scan ends
\* counted in validItems and every entry counted in expiredItems past its
\* TTL when the scan ends.
C19_StatsCountEveryEntry ==
    [][(hcall.op = "getStats" /\ hcall' # hcall /\ hcall.pc # "done") =>
        /\ cstore' = cstore
        /\ (hcall.pc = "scan" /\ hcall'.ok) =>
            LET k == hcall.keys[hcall.idx] IN
            /\ hcall.keys = SelectSeq(KeyOrder, LAMBDA x : cstore[x].has)
            /\ hcall.idx = hcall.totalItems + 1
            /\ hcall'.totalItems = hcall.totalItems + 1
            /\ now <= cstore[k].expiration =>
                (/\ hcall'.validItems = hcall.validItems + 1
                 /\ hcall'.expiredItems = hcall.expiredItems)
            /\ now > cstore[k].expiration =>
                (/\ hcall'.validItems = hcall.validItems
                 /\ hcall'.expiredItems = hcall.expiredItems + 1)
        /\ hcall'.pc = "done" =>
            /\ hcall'.ret.kind = "stats"
            /\ hcall'.ret.totalItems = hcall'.ret.validItems + hcall'.ret.expiredItems
        /\ (hcall'.pc = "done" /\ hcall'.ok) =>
            /\ hcall'.ret.totalItems = Cardinality(StoredEntries)
            /\ hcall'.ret.validItems >= Cardinality(ValidAt(now))
            /\ hcall'.ret.expiredItems <= Cardinality(ExpiredAt(now))]_vars

\* getStats has reported 5 / 3 / 2 over three entries within their TTL and
\* two past it, all five still stored
C19_Witness ==
    /\ hcall.op = "getStats"
    /\ hcall.pc = "done"
    /\ hcall.ok
    /\ hcall.ret = Stats(5, 3, 2)
    /\ Cardinality(ValidAt(now)) = 3
    /\ Cardinality(ExpiredAt(now)) = 2

----------------------------------------------------------------------------
(* Symbol Search: performLocalSearch over the built-in catalog *)

\* getStockDatabase()
stockDatabase ==
    <<
    [symbol |-> "AAPL", name |-> "Apple Inc.", sector |-> "Technology", exchange |-> "NASDAQ"],
    [symbol |-> "GOOGL", name |-> "Alphabet Inc.", sector |-> "Technology", exchange |-> "NASDAQ"],
    [symbol |-> "GOOG", name |-> "Alphabet Inc. Class A", sector |-> "Technology", exchange |-> "NASDAQ"],
    [symbol |-> "MSFT", name |-> "Microsoft Corporation", sector |-> "Technology", exchange |-> "NASDAQ"],
    [symbol |-> "AMZN", name |-> "Amazon.com Inc.", sector |-> "Consumer Discretionary", exchange |-> "NASDAQ"],
    [symbol |-> "TSLA", name |-> "Tesla Inc.", sector |-> "Consumer Discretionary", exchange |-> "NASDAQ"],
    [symbol |-> "META", name |-> "Meta Platforms Inc.", sector |-> "Technology", exchange |-> "NASDAQ"],
    [symbol |-> "NFLX", name |-> "Netflix Inc.", sector |-> "Communication Services", exchange |-> "NASDAQ"],
    [symbol |-> "NVDA", name |-> "NVIDIA Corporation", sector |-> "Technology", exchange |-> "NASDAQ"],
    [symbol |-> "CRM", name |-> "Salesforce Inc.", sector |-> "Technology", exchange |-> "NYSE"],
    [symbol |-> "ORCL", name |-> "Oracle Corporation", sector |-> "Technology", exchange |-> "NYSE"],
    [symbol |-> "ADBE", name |-> "Adobe Inc.", sector |-> "Technology", exchange |-> "NASDAQ"],
    [symbol |-> "PYPL", name |-> "PayPal Holdings Inc.", sector |-> "Financial Services", exchange |-> "NASDAQ"],
    [symbol |-> "INTC", name |-> "Intel Corporation", sector |-> "Technology", exchange |-> "NASDAQ"],
    [symbol |-> "AMD", name |-> "Advanced Micro Devices Inc.", sector |-> "Technology", exchange |-> "NASDAQ"],
    [symbol |-> "QCOM", name |-> "Qualcomm Incorporated", sector |-> "Technology", exchange |-> "NASDAQ"],
    [symbol |-> "AVGO", name |-> "Broadcom Inc.", sector |-> "Technology", exchange |-> "NASDAQ"],
    [symbol |-> "TXN", name |-> "Texas Instruments Incorporated", sector |-> "Technology", exchange |-> "NASDAQ"],
    [symbol |-> "CSCO", name |-> "Cisco Systems Inc.", sector |-> "Technology", exchange |-> "NASDAQ"],
    [symbol |-> "ACN", name |-> "Accenture plc", sector |-> "Technology", exchange |-> "NYSE"],
    [symbol |-> "IBM", name |-> "International Business Machines Corporation", sector |-> "Technology", exchange |-> "NYSE"],
    [symbol |-> "UBER", name |-> "Uber Technologies Inc.", sector |-> "Technology", exchange |-> "NYSE"],
    [symbol |-> "LYFT", name |-> "Lyft Inc.", sector |-> "Technology", exchange |-> "NASDAQ"],
    [symbol |-> "SQ", name |-> "Block Inc.", sector |-> "Technology", exchange |-> "NYSE"],
    [symbol |-> "SHOP", name |-> "Shopify Inc.", sector |-> "Technology", exchange |-> "NYSE"],
    [symbol |-> "SPOT", name |-> "Spotify Technology S.A.", sector |-> "Communication Services", exchange |-> "NYSE"],
    [symbol |-> "TWTR", name |-> "Twitter Inc.", sector |-> "Communication Services", exchange |-> "NYSE"],
    [symbol |-> "SNAP", name |-> "Snap Inc.", sector |-> "Communication Services", exchange |-> "NYSE"],
    [symbol |-> "PINS", name |-> "Pinterest Inc.", sector |-> "Communication Services", exchange |-> "NYSE"],
    [symbol |-> "JPM", name |-> "JPMorgan Chase & Co.", sector |-> "Financial Services", exchange |-> "NYSE"],
    [symbol |-> "BAC", name |-> "Bank of America Corporation", sector |-> "Financial Services", exchange |-> "NYSE"],
    [symbol |-> "WFC", name |-> "Wells Fargo & Company", sector |-> "Financial Services", exchange |-> "NYSE"],
    [symbol |-> "C", name |-> "Citigroup Inc.", sector |-> "Financial Services", exchange |-> "NYSE"],
    [symbol |-> "GS", name |-> "The Goldman Sachs Group Inc.", sector |-> "Financial Services", exchange |-> "NYSE"],
    [symbol |-> "MS", name |-> "Morgan Stanley", sector |-> "Financial Services", exchange |-> "NYSE"],
    [symbol |-> "V", name |-> "Visa Inc.", sector |-> "Financial Services", exchange |-> "NYSE"],
    [symbol |-> "MA", name |-> "Mastercard Incorporated", sector |-> "Financial Services", exchange |-> "NYSE"],
    [symbol |-> "AXP", name |-> "American Express Company", sector |-> "Financial Services", exchange |-> "NYSE"],
    [symbol |-> "JNJ", name |-> "Johnson & Johnson", sector |-> "Healthcare", exchange |-> "NYSE"],
    [symbol |-> "PFE", name |-> "Pfizer Inc.", sector |-> "Healthcare", exchange |-> "NYSE"],
    [symbol |-> "UNH", name |-> "UnitedHealth Group Incorporated", sector |-> "Healthcare", exchange |-> "NYSE"],
    [symbol |-> "ABBV", name |-> "AbbVie Inc.", sector |-> "Healthcare", exchange |-> "NYSE"],
    [symbol |-> "LLY", name |-> "Eli Lilly and Company", sector |-> "Healthcare", exchange |-> "NYSE"],
    [symbol |-> "MRK", name |-> "Merck & Co. Inc.", sector |-> "Healthcare", exchange |-> "NYSE"],
    [symbol |-> "TMO", name |-> "Thermo Fisher Scientific Inc.", sector |-> "Healthcare", exchange |-> "NYSE"],
    [symbol |-> "ABT", name |-> "Abbott Laboratories", sector |-> "Healthcare", exchange |-> "NYSE"],
    [symbol |-> "DHR", name |-> "Danaher Corporation", sector |-> "Healthcare", exchange |-> "NYSE"],
    [symbol |-> "PG", name |-> "The Procter & Gamble Company", sector |-> "Consumer Staples", exchange |-> "NYSE"],
    [symbol |-> "KO", name |-> "The Coca-Cola Company", sector |-> "Consumer Staples", exchange |-> "NYSE"],
    [symbol |-> "PEP", name |-> "PepsiCo Inc.", sector |-> "Consumer Staples", exchange |-> "NASDAQ"],
    [symbol |-> "WMT", name |-> "Walmart Inc.", sector |-> "Consumer Staples", exchange |-> "NYSE"],
    [symbol |-> "COST", name |-> "Costco Wholesale Corporation", sector |-> "Consumer Staples", exchange |-> "NASDAQ"],
    [symbol |-> "HD", name |-> "The Home Depot Inc.", sector |-> "Consumer Discretionary", exchange |-> "NYSE"],
    [symbol |-> "LOW", name |-> "Lowe's Companies Inc.", sector |-> "Consumer Discretionary", exchange |-> "NYSE"],
    [symbol |-> "MCD", name |-> "McDonald's Corporation", sector |-> "Consumer Discretionary", exchange |-> "NYSE"],
    [symbol |-> "SBUX", name |-> "Starbucks Corporation", sector |-> "Consumer Discretionary", exchange |-> "NASDAQ"],
    [symbol |-> "NKE", name |-> "NIKE Inc.", sector |-> "Consumer Discretionary", exchange |-> "NYSE"],
    [symbol |-> "XOM", name |-> "Exxon Mobil Corporation", sector |-> "Energy", exchange |-> "NYSE"],
    [symbol |-> "CVX", name |-> "Chevron Corporation", sector |-> "Energy", exchange |-> "NYSE"],
    [symbol |-> "COP", name |-> "ConocoPhillips", sector |-> "Energy", exchange |-> "NYSE"],
    [symbol |-> "BA", name |-> "The Boeing Company", sector |-> "Industrials", exchange |-> "NYSE"],
    [symbol |-> "GE", name |-> "General Electric Company", sector |-> "Industrials", exchange |-> "NYSE"],
    [symbol |-> "CAT", name |-> "Caterpillar Inc.", sector |-> "Industrials", exchange |-> "NYSE"],
    [symbol |-> "VZ", name |-> "Verizon Communications Inc.", sector |-> "Communication Services", exchange |-> "NYSE"],
    [symbol |-> "T", name |-> "AT&T Inc.", sector |-> "Communication Services", exchange |-> "NYSE"],
    [symbol |-> "AMT", name |-> "American Tower Corporation", sector |-> "Real Estate", exchange |-> "NYSE"],
    [symbol |-> "NEE", name |-> "NextEra Energy Inc.", sector |-> "Utilities", exchange |-> "NYSE"],
    [symbol |-> "LIN", name |-> "Linde plc", sector |-> "Materials", exchange |-> "NYSE"],
    [symbol |-> "SPY", name |-> "SPDR S&P 500 ETF Trust", sector |-> "ETF", exchange |-> "NYSE"],
    [symbol |-> "QQQ", name |-> "Invesco QQQ Trust", sector |-> "ETF", exchange |-> "NASDAQ"],
    [symbol |-> "IWM", name |-> "iShares Russell 2000 ETF", sector |-> "ETF", exchange |-> "NYSE"],
    [symbol |-> "VTI", name |-> "Vanguard Total Stock Market ETF", sector |-> "ETF", exchange |-> "NYSE"],
    [symbol |-> "VOO", name |-> "Vanguard S&P 500 ETF", sector |-> "ETF", exchange |-> "NYSE"],
    [symbol |-> "VEA", name |-> "Vanguard FTSE Developed Markets ETF", sector |-> "ETF", exchange |-> "NYSE"],
    [symbol |-> "VWO", name |-> "Vanguard FTSE Emerging Markets ETF", sector |-> "ETF", exchange |-> "NYSE"],
    [symbol |-> "AGG", name |-> "iShares Core U.S. Aggregate Bond ETF", sector |-> "ETF", exchange |-> "NYSE"],
    [symbol |-> "BND", name |-> "Vanguard Total Bond Market ETF", sector |-> "ETF", exchange |-> "NASDAQ"],
    [symbol |-> "GLD", name |-> "SPDR Gold Shares", sector |-> "ETF", exchange |-> "NYSE"]
    >>

LowerCase == "abcdefghijklmnopqrstuvwxyz"
UpperCase == "ABCDEFGHIJKLMNOPQRSTUVWXYZ"

\* String.prototype.toUpperCase, one character / a whole string
UpperChar(c) ==
    IF \E i \in 1..Len(LowerCase) : SubSeq(LowerCase, i, i) = c
    THEN LET i == CHOOSE i \in 1..Len(LowerCase) : SubSeq(LowerCase, i, i) = c
         IN SubSeq(UpperCase, i, i)
    ELSE c

RECURSIVE toUpperCase(_)
toUpperCase(s) ==
    IF s = "" THEN ""
    ELSE UpperChar(SubSeq(s, 1, 1)) \o toUpperCase(SubSeq(s, 2, Len(s)))

\* stock.name.toUpperCase() of every catalog entry
UpperNames == [i \in 1..Len(stockDatabase) |-> toUpperCase(stockDatabase[i].name)]

\* String.prototype.includes
includes(s, q) ==
    \E i \in 1..(Len(s) - Len(q) + 1) : SubSeq(s, i, i + Len(q) - 1) = q

\* { ...stock, matchType }
WithMatchType(stock, matchType) ==
    [symbol |-> stock.symbol, name |-> stock.name, sector |-> stock.sector,
     exchange |-> stock.exchange, matchType |-> matchType]

\* stockDatabase.filter(test) is SelectSeq over the positions of the catalog
Positions == [i \in 1..Len(stockDatabase) |-> i]

\* the catalog entries at the positions kept by a filter
entriesAt(kept) == [k \in 1..Len(kept) |-> stockDatabase[kept[k]]]

tag(stocks, matchType) ==
    [i \in 1..Len(stocks) |-> WithMatchType(stocks[i], matchType)]

isPartialSymbolLoose(symbol, query) == includes(symbol, query)

\* stock.symbol.includes(query) && stock.symbol !== query
isPartialSymbol(symbol, query) == includes(symbol, query) /\ symbol # query

priority(matchType) ==
    CASE matchType = "exact_symbol" -> 0
      [] matchType = "partial_symbol" -> 1
      [] matchType = "name" -> 2

\* Array.prototype.sort by priority, which keeps the order of equal elements
sortByPriority(results) ==
    SelectSeq(results, LAMBDA r : priority(r.matchType) = 0)
        \o SelectSeq(results, LAMBDA r : priority(r.matchType) = 1)
        \o SelectSeq(results, LAMBDA r : priority(r.matchType) = 2)

\* Array.prototype.slice(0, n)
slice(results, n) == SubSeq(results, 1, IF Len(results) < n THEN Len(results) ELSE n)

performLocalSearch(query) ==
    LET exact ==
            entriesAt(SelectSeq(Positions, LAMBDA i : stockDatabase[i].symbol = query))
        results1 == IF exact # << >> THEN << WithMatchType(exact[1], "exact_symbol") >>
                                     ELSE << >>
        symbolMatches ==
            entriesAt(SelectSeq(Positions, LAMBDA i :
                isPartialSymbol(stockDatabase[i].symbol, query)))
        results2 == results1 \o tag(symbolMatches, "partial_symbol")
        nameMatches ==
            entriesAt(SelectSeq(Positions, LAMBDA i :
                /\ includes(UpperNames[i], query)
                /\ ~\E j \in 1..Len(results2) :
                        results2[j].symbol = stockDatabase[i].symbol))
        results3 == results2 \o tag(nameMatches, "name")
    IN sortByPriority(slice(results3, 20))

\* Queries: every symbol of the catalog, every piece of at most MaxQueryLen
\* characters of a symbol or of an upper-cased name, and one that matches
\* nothing
Pieces(s) ==
    {SubSeq(s, i, j) : i \in 1..Len(s), j \in 1..Len(s)} \ {""}

QueryInputs ==
    {stockDatabase[i].symbol : i \in 1..Len(stockDatabase)}
    \cup {q \in UNION {Pieces(stockDatabase[i].symbol) \cup Pieces(UpperNames[i]) :
                        i \in 1..Len(stockDatabase)} : Len(q) <= MaxQueryLen}
    \cup {"ZZZZ"}

\* performLocalSearch(q) is called and returns
Search(q) ==
    /\ scall = NoSearch
    /\ scall' = [query |-> q, results |-> performLocalSearch(q)]
    /\ UNCHANGED <<now, wvars, cvars, hcall, pcall>>

\* the caller has taken the results
SearchReturn ==
    /\ scall # NoSearch
    /\ scall' = NoSearch
    /\ UNCHANGED <<now, wvars, cvars, hcall, pcall>>

SearchNext ==
    \/ \E q \in QueryInputs : Search(q)
    \/ SearchReturn

SearchSpec == Init /\ [][SearchNext]_vars

----------------------------------------------------------------------------
(* Symbol Search: properties *)

\* the position of a result in the catalog (0: not an entry of the catalog)
CatalogIndex(r) ==
    IF \E i \in 1..Len(stockDatabase) :
            WithMatchType(stockDatabase[i], r.matchType) = r
    THEN CHOOSE i \in 1..Len(stockDatabase) :
            WithMatchType(stockDatabase[i], r.matchType) = r
    ELSE 0

\* how the catalog entry at position i matches the query: by its symbol
\* being the query, by its symbol containing it, by its name only, or not
MatchOf(i, q) ==
    IF stockDatabase[i].symbol = q THEN "exact_symbol"
    ELSE IF includes(stockDatabase[i].symbol, q) THEN "partial_symbol"
    ELSE IF includes(UpperNames[i], q) THEN "name"
    ELSE "none"

Rank(matchType) ==
    CASE matchType = "exact_symbol" -> 0
      [] matchType = "partial_symbol" -> 1
      [] matchType = "name" -> 2
      [] OTHER -> 3

\* C20: the result of a search holds at most 20 entries, each a catalog
\* entry carrying the match type of its relation to the query, none twice,
\* at most one of them exact; exact comes before partial before name, and
\* within a match type the entries are in catalog order; a matching catalog
\* entry is left out only when the result is full, and then it ranks after
\* every entry of the result.
C20_SearchRanking ==
    scall # NoSearch =>
        LET q == scall.query
            r == scall.results
            N == Len(r)
        IN /\ N <= 20
           /\ \A k \in 1..N :
                /\ CatalogIndex(r[k]) # 0
                /\ MatchOf(CatalogIndex(r[k]), q) = r[k].matchType
           /\ \A k, l \in 1..N : r[k].symbol = r[l].symbol => k = l
           /\ Cardinality({k \in 1..N : r[k].matchType = "exact_symbol"}) <= 1
           /\ \A k, l \in 1..N :
                k < l =>
                    \/ Rank(r[k].matchType) < Rank(r[l].matchType)
                    \/ /\ r[k].matchType = r[l].matchType
                       /\ CatalogIndex(r[k]) < CatalogIndex(r[l])
           /\ \A i \in 1..Len(stockDatabase) :
                (/\ MatchOf(i, q) # "none"
                 /\ \A k \in 1..N : CatalogIndex(r[k]) # i) =>
                    /\ N = 20
                    /\ \A k \in 1..N :
                        \/ Rank(r[k].matchType) < Rank(MatchOf(i, q))
                        \/ /\ r[k].matchType = MatchOf(i, q)
                           /\ CatalogIndex(r[k]) < i

\* A search has returned a full result that starts with the exact match and
\* holds partial and name matches too, other matching entries being left out
C20_Witness ==
    /\ scall # NoSearch
    /\ Len(scall.results) = 20
    /\ scall.results[1].matchType = "exact_symbol"
    /\ scall.results[1].symbol = scall.query
    /\ \E k \in 2..20 : scall.results[k].matchType = "partial_symbol"
    /\ scall.results[20].matchType = "name"
    /\ \E i \in 1..Len(stockDatabase) :
        /\ MatchOf(i, scall.query) = "name"
        /\ \A k \in 1..20 : scall.results[k].symbol # stockDatabase[i].symbol

----------------------------------------------------------------------------
(* Search Service: searchStocks with its cache, getSuggestions *)

\* The search TTL left out of the set call: the cache's default applies.
SEARCH_RESULTS_Omitted == DEFAULT_EXPIRATION

\* CACHE_DURATIONS.SEARCH_RESULTS
SEARCH_RESULTS == 15 * 60 * 1000

\* CACHE_KEYS.SEARCH_RESULTS
SEARCH_RESULTS_KEY == "search_results_"

\* String.prototype.trim
RECURSIVE trimStart(_)
trimStart(s) ==
    IF s # "" /\ SubSeq(s, 1, 1) = " " THEN trimStart(SubSeq(s, 2, Len(s))) ELSE s

RECURSIVE trimEnd(_)
trimEnd(s) ==
    IF s # "" /\ SubSeq(s, Len(s), Len(s)) = " "
    THEN trimEnd(SubSeq(s, 1, Len(s) - 1))
    ELSE s

trimString(s) == trimEnd(trimStart(s))

\* !query || query.trim().length < 1
isBlank(query) == query = Undef \/ Len(trimString(query)) < 1

\* query.trim().toUpperCase()
cleanQueryOf(query) == toUpperCase(trimString(query))

\* `${CACHE_KEYS.SEARCH_RESULTS}${cleanQuery}`
searchCacheKey(cleanQuery) == SEARCH_RESULTS_KEY \o cleanQuery

getPopularStocks ==
    << [symbol |-> "AAPL", name |-> "Apple Inc."],
       [symbol |-> "GOOGL", name |-> "Alphabet Inc."],
       [symbol |-> "MSFT", name |-> "Microsoft Corporation"],
       [symbol |-> "AMZN", name |-> "Amazon.com Inc."],
       [symbol |-> "TSLA", name |-> "Tesla Inc."],
       [symbol |-> "META", name |-> "Meta Platforms Inc."],
       [symbol |-> "NFLX", name |-> "Netflix Inc."],
       [symbol |-> "NVDA", name |-> "NVIDIA Corporation"] >>

\* Query arguments as callers type them: absent, empty, blank, and spellings
\* of one symbol that differ in case and padding
BlankQueries == {Undef, "", "   "}
CachedQueries == {"AAPL", "aapl", " aapl ", "Aapl "}
PartialQueries == {"a", " goo ", "bank", "in", "ZZZZ"}

\* A searchStocks / getSuggestions call: `ranked` tells whether
\* performLocalSearch ran, `results` is the value returned
SearchCall(op, raw, forceRefresh) ==
    [op |-> op, pc |-> "done", raw |-> raw, forceRefresh |-> forceRefresh,
     query |-> "", key |-> "", readOk |-> TRUE, item |-> NoItem, saw |-> "",
     ranked |-> FALSE, entry |-> NoItem, wOk |-> TRUE, results |-> << >>]

\* getSuggestions(query)
getSuggestions(raw) ==
    /\ scall = NoSearch
    /\ scall' =
        IF isBlank(raw)
        THEN [SearchCall("getSuggestions", raw, FALSE) EXCEPT
                !.results = getPopularStocks]
        ELSE [SearchCall("getSuggestions", raw, FALSE) EXCEPT
                !.query = cleanQueryOf(raw), !.ranked = TRUE,
                !.results = slice(performLocalSearch(cleanQueryOf(raw)), 8)]
    /\ UNCHANGED <<now, wvars, cvars, hcall, pcall>>

\* A cache payload that is an array (payloads are held as records, so that
\* any two of them can be compared)
ArrayData(results) == [array |-> results]

\* the search proper of searchStocks: performLocalSearch, then the cacheItem
\* of cacheService.set is built and AsyncStorage.setItem awaited
searchAndCache(call, t) ==
    [call EXCEPT !.pc = "setItem", !.ranked = TRUE,
                 !.entry = cacheItem(ArrayData(performLocalSearch(call.query)), t,
                                     SEARCH_RESULTS)]

\* searchStocks(query, forceRefresh) up to its first await
searchStocks(raw, forceRefresh) ==
    /\ scall = NoSearch
    /\ scall' =
        IF isBlank(raw)
        THEN SearchCall("searchStocks", raw, forceRefresh)
        ELSE LET call == [SearchCall("searchStocks", raw, forceRefresh) EXCEPT
                            !.query = cleanQueryOf(raw),
                            !.key = searchCacheKey(cleanQueryOf(raw))]
             IN IF forceRefresh THEN searchAndCache(call, now)
                ELSE [call EXCEPT !.pc = "getItem"]
    /\ UNCHANGED <<now, wvars, cvars, hcall, pcall>>

\* cacheService.get: AsyncStorage.getItem resolves or rejects
searchGetItem ==
    /\ scall # NoSearch
    /\ scall.pc = "getItem"
    /\ \E ok \in BOOLEAN :
        scall' = [scall EXCEPT !.pc = "getCont", !.readOk = ok,
                               !.item = IF ok THEN cstore[scall.key] ELSE NoItem]
    /\ UNCHANGED <<now, wvars, cvars, hcall, pcall>>

\* cacheService.get after the read: a fresh entry is returned to searchStocks,
\* which returns it; a stale one is removed first; otherwise the search runs
searchGetCont ==
    /\ scall # NoSearch
    /\ scall.pc = "getCont"
    /\ LET saw == Found(scall, now)
           call == [scall EXCEPT !.saw = saw]
       IN scall' =
            CASE saw = "fresh" -> [call EXCEPT !.pc = "done",
                                               !.results = scall.item.data.array]
              [] saw = "stale" -> [call EXCEPT !.pc = "removeItem"]
              [] OTHER -> searchAndCache(call, now)
    /\ UNCHANGED <<now, wvars, cvars, hcall, pcall>>

\* cacheService.remove of the stale entry (a rejection is logged), get
\* returns null and the search runs
searchRemoveItem ==
    /\ scall # NoSearch
    /\ scall.pc = "removeItem"
    /\ \E ok \in BOOLEAN :
        cstore' = IF ok THEN [cstore EXCEPT ![scall.key] = NoItem] ELSE cstore
    /\ scall' = searchAndCache(scall, now)
    /\ UNCHANGED <<now, wvars, fcall, hcall, pcall>>

\* cacheService.set: AsyncStorage.setItem takes effect, or rejects and is
\* logged; searchStocks returns the results
searchSetItem ==
    /\ scall # NoSearch
    /\ scall.pc = "setItem"
    /\ \E ok \in BOOLEAN :
        /\ cstore' = IF ok THEN [cstore EXCEPT ![scall.key] = scall.entry] ELSE cstore
        /\ scall' = [scall EXCEPT !.pc = "done", !.wOk = ok,
                                  !.results = scall.entry.data.array]
    /\ UNCHANGED <<now, wvars, fcall, hcall, pcall>>

\* the caller has taken the value returned
searchDone ==
    /\ scall # NoSearch
    /\ scall.pc = "done"
    /\ scall' = NoSearch
    /\ UNCHANGED <<now, wvars, cvars, hcall, pcall>>

QueryNext ==
    \/ Tick
    \/ Elapse
    \/ \E raw \in BlankQueries \cup CachedQueries \cup PartialQueries :
            getSuggestions(raw)
    \/ \E raw \in BlankQueries \cup CachedQueries, forceRefresh \in BOOLEAN :
            searchStocks(raw, forceRefresh)
    \/ searchGetItem
    \/ searchGetCont
    \/ searchRemoveItem
    \/ searchSetItem
    \/ searchDone

QuerySpec == Init /\ [][QueryNext]_vars

\* C21: a call of searchStocks or getSuggestions with an absent, empty or
\* blank query returns the popular-stocks shortlist (8 entries, AAPL first)
\* and has not run performLocalSearch; getSuggestions with a non-blank query
\* returns at most 8 results, the first entries of performLocalSearch of the
\* trimmed, upper-cased query.
C21_BlankQueryPopular ==
    (scall # NoSearch /\ scall.pc = "done") =>
        /\ isBlank(scall.raw) =>
            /\ scall.results = getPopularStocks
            /\ Len(scall.results) = 8
            /\ scall.results[1].symbol = "AAPL"
            /\ ~scall.ranked
        /\ (scall.op = "getSuggestions" /\ ~isBlank(scall.raw)) =>
            /\ Len(scall.results) <= 8
            /\ scall.results =
                slice(performLocalSearch(toUpperCase(trimString(scall.raw))), 8)

\* C22: searchStocks with a non-blank query uses the cache key
\* "search_results_" followed by the trimmed, upper-cased query, so "AAPL",
\* "aapl", " aapl " and "Aapl " all use the entry search_results_AAPL; the
\* entry a search writes expires 15 minutes after the search built it; and a
\* non-forced search that reads an entry written at most 15 minutes earlier
\* returns that entry's results unchanged, without searching again and
\* without touching the store, and they equal performLocalSearch of the
\* normalized query.
C22_SearchCache ==
    [][(scall' # NoSearch /\ scall'.op = "searchStocks" /\ ~isBlank(scall'.raw)) =>
        /\ scall'.key = "search_results_" \o toUpperCase(trimString(scall'.raw))
        /\ scall'.raw \in CachedQueries => scall'.key = "search_results_AAPL"
        /\ cstore' # cstore =>
            \A k \in HouseKeys :
                (cstore'[k] # cstore[k] /\ cstore'[k].has) =>
                    /\ k = scall'.key
                    /\ cstore'[k].timestamp <= now
                    /\ cstore'[k].expiration = cstore'[k].timestamp + 15 * 60 * 1000
                    /\ cstore'[k].data = ArrayData(performLocalSearch(scall'.query))
        /\ (/\ scall # NoSearch
            /\ scall.pc = "getCont"
            /\ scall' # scall
            /\ scall.readOk
            /\ scall.item.has
            /\ now - scall.item.timestamp <= 15 * 60 * 1000) =>
                /\ scall'.pc = "done"
                /\ ~scall'.ranked
                /\ scall'.results = scall.item.data.array
                /\ scall'.results = performLocalSearch(scall'.query)
                /\ cstore' = cstore
    ]_vars

\* a search for " aapl " has returned, exactly 15 minutes after the search
\* that cached them, the cached results for AAPL
C22_Witness ==
    /\ scall # NoSearch
    /\ scall.op = "searchStocks"
    /\ scall.pc = "done"
    /\ scall.raw = " aapl "
    /\ scall.saw = "fresh"
    /\ now = scall.item.timestamp + 15 * 60 * 1000
    /\ Len(scall.results) >= 1
    /\ scall.results[1].symbol = "AAPL"
    /\ scall.results = performLocalSearch("AAPL")

----------------------------------------------------------------------------
(* Market Data Gateway: makeRequest on its own *)

\* response.status values, at and around the limits of response.ok
Statuses == {200, 201, 299, 300, 304, 404, 429, 500, 503}

\* What the API can answer: a status, a body that is JSON or is not, and in a
\* JSON body the 'Error Message' field, the 'Note' field, both or neither
Responses ==
    { [kind |-> "response", status |-> s, field |-> f, body |-> b] :
        s \in Statuses, f \in {"none", "Error Message", "Note", "both"},
        b \in {MoversBodyA, OverviewBody, NoSeriesBody} }
    \cup { [kind |-> "response", status |-> s, field |-> "none", body |-> Garbage] :
            s \in Statuses }

Failures ==
    { [kind |-> "abort", status |-> 0, field |-> "none", body |-> NoData],
      [kind |-> "network", status |-> 0, field |-> "none", body |-> NoData] }

\* makeRequest is called: the URL is built and fetch awaited
requestStart ==
    /\ pcall = IdlePure
    /\ pcall' = [op |-> "makeRequest", pc |-> "fetch"]
    /\ UNCHANGED <<now, wvars, cvars, hcall, scall>>

\* fetch settles and makeRequest returns its envelope, or throws
requestSettle ==
    /\ pcall.pc = "fetch"
    /\ \E t \in Responses \cup Failures :
        pcall' = [op |-> "makeRequest", pc |-> "done", arg |-> t, ret |-> makeRequest(t)]
    /\ UNCHANGED <<now, wvars, cvars, hcall, scall>>

\* the caller has taken the result of the stateless call
pureReturn ==
    /\ pcall.pc = "done"
    /\ pcall' = IdlePure
    /\ UNCHANGED <<now, wvars, cvars, hcall, scall>>

GatewayNext ==
    \/ requestStart
    \/ requestSettle
    \/ pureReturn

GatewaySpec == Init /\ [][GatewayNext]_vars

\* C23: makeRequest, given a response, returns an envelope (it does not
\* throw); a response with a status outside 200..299, or with a 2xx status
\* and a body carrying 'Error Message' or 'Note', yields success = FALSE with
\* a non-empty error text; success = TRUE is returned only for a 2xx
\* response carrying neither field, with the body as data and the response's
\* status, and every such response with a JSON body yields it.
C23_Envelope ==
    (pcall.op = "makeRequest" /\ pcall.pc = "done" /\ pcall.arg.kind = "response") =>
        LET t == pcall.arg
            ret == pcall.ret
            is2xx == t.status >= 200 /\ t.status <= 299
            flagged == t.field # "none"
        IN /\ ~ret.rejected
           /\ (~is2xx \/ flagged) => (~ret.success /\ Len(ret.error) > 0)
           /\ ret.success => (/\ is2xx
                              /\ ~flagged
                              /\ ret.data = t.body
                              /\ ret.status = t.status)
           /\ (is2xx /\ ~flagged /\ t.body # Garbage) => ret.success

\* makeRequest has turned a 200 response whose body carries only the 'Note'
\* field into a failure envelope
C23_Witness ==
    /\ pcall.op = "makeRequest"
    /\ pcall.pc = "done"
    /\ pcall.arg.kind = "response"
    /\ pcall.arg.status = 200
    /\ pcall.arg.field = "Note"
    /\ ~pcall.ret.success
    /\ pcall.ret.error = "API call frequency limit reached. Please try again later."

----------------------------------------------------------------------------
(* The Wishlist Store under two callers, AsyncStorage serving its requests
   one at a time in the order they were made and calling back in that order
   (the native module runs them on one serial queue) *)

SyncInit == Constructed /\ wio = [NoLog EXCEPT !.on = TRUE]

\* the callback due next is caller p's
Turn(p) == wio.queue # << >> /\ Head(wio.queue) = p

\* no setItem handed to the store is still to be carried out
NoWritePending == \A q \in WProcs : wcall[q].pc # "write"

SyncUpdates == {u \in UpdateInputs : u = << >> \/ u[1].symbol = "AAPL"}

\* a call is made / the callback due next runs its caller's continuation
Starts(p) == NoWritePending /\ wcall[p].pc = "idle"

Resumes(p) == NoWritePending /\ Turn(p)

SyncNext ==
    \/ NoWritePending /\ Tick
    \/ \E p \in WProcs :
        \/ Starts(p) /\ getWishlists(p)
        \/ Starts(p) /\ \E name \in RaceNames : createWishlist(p, name)
        \/ Starts(p) /\ \E id \in IdInputs : deleteWishlist(p, id)
        \/ Starts(p) /\ \E id \in IdInputs, stock \in RaceStocks :
                            addStockToWishlist(p, id, stock)
        \/ Starts(p) /\ \E id \in IdInputs : removeStockFromWishlist(p, id, "AAPL")
        \/ Starts(p) /\ \E upd \in SyncUpdates : updateStockPrices(p, upd)
        \/ Starts(p) /\ clearAllWishlists(p)
        \/ Resumes(p) /\ getWishlistsDone(p)
        \/ Resumes(p) /\ createWishlistCont(p)
        \/ Resumes(p) /\ createWishlistDone(p)
        \/ Resumes(p) /\ deleteWishlistCont(p)
        \/ Resumes(p) /\ deleteWishlistDone(p)
        \/ Resumes(p) /\ addStockToWishlistCont(p)
        \/ Resumes(p) /\ addStockToWishlistDone(p)
        \/ Resumes(p) /\ removeStockFromWishlistCont(p)
        \/ Resumes(p) /\ removeStockFromWishlistDone(p)
        \/ Resumes(p) /\ updateStockPricesCont(p)
        \/ Resumes(p) /\ updateStockPricesDone(p)
        \/ Resumes(p) /\ clearAllWishlistsDone(p)
        \/ setItem(p)

SyncSpec == SyncInit /\ [][SyncNext]_vars

\* this.cache read as a collection: null counts as the empty collection
MirrorList == IF mirror.kind = "null" THEN << >> ELSE MirrorVal

Quiescent == \A p \in WProcs : wcall[p].pc = "idle"

\* C24: whenever no wishlist call is in flight and the most recent
\* AsyncStorage operation of the Wishlist Store succeeded, this.cache equals
\* the persisted collection (null and an absent entry both counting as the
\* empty collection), whatever calls of list, create, delete, addStock,
\* removeStock, applyPriceUpdates and clearAll the two callers made and
\* however they overlapped.
C24_MirrorInSync ==
    (Quiescent /\ wio.ok) => MirrorList = Persisted

\* no call is in flight, the last store operation succeeded, and the mirror
\* holds the two persisted lists, one of them with a re-priced stock
C24_Witness ==
    /\ Quiescent
    /\ wio.ok
    /\ mirror.kind # "null"
    /\ Len(Persisted) = 2
    /\ MirrorList = Persisted
    /\ \E i \in 1..2 :
        /\ Len(Persisted[i].stocks) = 1
        /\ Persisted[i].stocks[1].lastUpdated # NoTime

----------------------------------------------------------------------------
(* Wishlist Store: timestamps and price updates *)

\* C25: in every persisted state, a wishlist's updatedAt is not older than
\* its createdAt nor than the latest change to its stocks: the addedAt of
\* each stock it holds (addStock) and the lastUpdated of each stock that
\* applyPriceUpdates has re-priced.
C25_UpdatedAtCurrent ==
    \A i \in 1..Len(Persisted) :
        LET w == Persisted[i]
        IN /\ w.updatedAt >= w.createdAt
           /\ \A j \in 1..Len(w.stocks) :
                /\ w.updatedAt >= w.stocks[j].addedAt
                /\ w.stocks[j].lastUpdated # NoTime =>
                        w.updatedAt >= w.stocks[j].lastUpdated

\* an update of the array names the stock by its symbol or by its ticker
Named(upd, stock) ==
    \E k \in 1..Len(upd) : upd[k].symbol = stock.symbol \/ upd[k].ticker = stock.symbol

\* C26: applyPriceUpdates(updates), its read done, gives every stock of every
\* list whose symbol equals the symbol or the ticker of an update that
\* update's price and change and lastUpdated = the time of the call, and
\* leaves every other stock, and the lists themselves, as they were; when a
\* stock matched it goes on to one write of that collection, which replaces
\* the persisted one, and then returns true; when none matched it returns
\* true at once; no other step of the call touches the store.
C26_PriceUpdateFrame ==
    [][\A p \in WProcs :
        /\ ContStep(p, "update") =>
            LET arr == wcall[p].arr
                upd == wcall[p].upd
            IN /\ wstore' = wstore
               /\ IF \E i \in 1..Len(arr) : \E j \in 1..Len(arr[i].stocks) :
                        Named(upd, arr[i].stocks[j])
                  THEN /\ wcall'[p].pc = "write"
                       /\ Len(wcall'[p].out) = Len(arr)
                       /\ \A i \in 1..Len(arr) :
                            LET w == arr[i]
                                x == wcall'[p].out[i]
                            IN /\ [x EXCEPT !.stocks = w.stocks] = w
                               /\ Len(x.stocks) = Len(w.stocks)
                               /\ \A j \in 1..Len(w.stocks) :
                                    IF Named(upd, w.stocks[j])
                                    THEN /\ \E k \in 1..Len(upd) :
                                              /\ upd[k].symbol = w.stocks[j].symbol
                                                    \/ upd[k].ticker = w.stocks[j].symbol
                                              /\ x.stocks[j].price = upd[k].price
                                              /\ x.stocks[j].change = upd[k].change
                                         /\ x.stocks[j].lastUpdated = now
                                         /\ [x.stocks[j] EXCEPT
                                                !.price = w.stocks[j].price,
                                                !.change = w.stocks[j].change,
                                                !.lastUpdated = w.stocks[j].lastUpdated]
                                              = w.stocks[j]
                                    ELSE x.stocks[j] = w.stocks[j]
                  ELSE /\ wcall'[p].pc = "idle"
                       /\ lastRet' = [p |-> p, op |-> "update", ok |-> TRUE, val |-> "true"]
        /\ WriteOkStep(p, "update") => Persisted' = wcall[p].out
        /\ DoneStep(p, "update") =>
            /\ wstore' = wstore
            /\ lastRet' = [p |-> p, op |-> "update", ok |-> TRUE, val |-> "true"]
    ]_vars

\* an update naming TSLA by ticker has been written: in a list holding AAPL
\* and TSLA the TSLA stock carries the new price and the AAPL stock none
C26_Witness ==
    /\ wcall[1].op = "update"
    /\ wcall[1].pc = "wrote"
    /\ wcall[1].wok
    /\ \E i \in 1..Len(Persisted) :
        /\ Len(Persisted[i].stocks) = 2
        /\ \E j, k \in 1..2 :
            /\ Persisted[i].stocks[j].symbol = "TSLA"
            /\ Persisted[i].stocks[j].price = "$240.00"
            /\ Persisted[i].stocks[j].lastUpdated = now
            /\ Persisted[i].stocks[k].symbol = "AAPL"
            /\ Persisted[i].stocks[k].lastUpdated = NoTime

----------------------------------------------------------------------------
(* Chart series: the two StockService implementations of formatChartData,
   the cache-aware one (filterDataByPeriod, a date cutoff) and the one the
   chart screen calls through fetchChartData (filterDatesByPeriod, a date
   cutoff and a cap on the number of points) *)

MaxPoints == 61     \* the longest raw time series formatted

Periods == {"1W", "1M", "3M", "6M", "1Y", "5Y"}

\* a period the switch statements do not list
PeriodInputs == Periods \cup {"MAX"}

\* A daily series of n bars, one every `stride` days, the latest on day
\* `last`; the figures of a bar are made from its date, so that no two bars
\* carry the same ones
BarOf(date) ==
    Bar(date, 1000000 + date, 1010000 + date, 990000 + date, 1005000 + date,
        20000000 + date)

SeriesBody(n, stride, last) ==
    [block |-> "Time Series (Daily)", meta |-> TRUE, symbol |-> "AAPL",
     refreshed |-> "2024-01-02",
     series |-> {BarOf(last - stride * (i - 1)) : i \in 1..n}]

\* Array.prototype.reverse of a date-ascending array: the order
\* dates.sort((a, b) => new Date(b) - new Date(a)) gives
Reverse(s) == [i \in 1..Len(s) |-> s[Len(s) + 1 - i]]

\* filterDatesByPeriod at clock reading t, on the date-ascending keys
filterDatesByPeriod(dates, period, t) ==
    LET sortedDates == Reverse(dates)
        since(days) == SelectSeq(sortedDates, LAMBDA d : OnOrAfterCutoff(d, days, t))
    IN CASE period = "1W" -> slice(since(7), 30)
         [] period = "1M" -> slice(since(30), 30)
         [] period = "3M" -> slice(since(90), 60)
         [] period = "6M" -> slice(since(180), 120)
         [] period = "1Y" -> slice(since(365), 250)
         [] period = "5Y" -> slice(sortedDates, 1000)
         [] OTHER -> slice(sortedDates, 30)

\* formatChartData of the implementation behind fetchChartData: the points
\* of the filtered dates, then sorted ascending by date (labels and colour,
\* which are presentation, are left out)
formatChartDataCapped(apiData, period, t) ==
    LET sorted == SortByDate(apiData.series)
        dates == [i \in 1..Len(sorted) |-> sorted[i].date]
        filteredDates == filterDatesByPeriod(dates, period, t)
        bar(date) == CHOOSE b \in apiData.series : b.date = date
        dataPoints == {[date |-> d, price |-> bar(d).close, high |-> bar(d).high,
                        low |-> bar(d).low, open |-> bar(d).open,
                        volume |-> bar(d).volume] : d \in Range(filteredDates)}
        ascending == SortByDate(dataPoints)
    IN [data |-> [i \in 1..Len(ascending) |-> ascending[i].price],
        rawData |-> ascending]

Implementations == {"filterDataByPeriod", "filterDatesByPeriod"}

\* formatChartData(apiData, period) is called and returns
chartFormat(impl, n, stride, last, period) ==
    /\ pcall = IdlePure
    /\ pcall' = [op |-> "formatChartData", pc |-> "done",
                 arg |-> [impl |-> impl, apiData |-> SeriesBody(n, stride, last),
                          period |-> period, at |-> now],
                 ret |-> IF impl = "filterDataByPeriod"
                         THEN formatChartData(SeriesBody(n, stride, last), period, now)
                         ELSE formatChartDataCapped(SeriesBody(n, stride, last),
                                                    period, now)]
    /\ UNCHANGED <<now, wvars, cvars, hcall, scall>>

ChartNext ==
    \/ Tick
    \/ \E impl \in Implementations, n \in 0..MaxPoints, stride \in {1, 7},
          last \in {0, 0 - 1}, period \in PeriodInputs :
            chartFormat(impl, n, stride, last, period)
    \/ pureReturn

ChartSpec == Init /\ [][ChartNext]_vars

\* the cap of a period on the number of points
PeriodCap(period) ==
    CASE period = "1W" -> 30
      [] period = "1M" -> 30
      [] period = "3M" -> 60
      [] period = "6M" -> 120
      [] period = "1Y" -> 250
      [] period = "5Y" -> 1000

ChartDone == pcall.op = "formatChartData" /\ pcall.pc = "done"

\* the points of the raw series, in ascending order of date
InputPoints ==
    LET sorted == SortByDate(pcall.arg.apiData.series)
    IN [i \in 1..Len(sorted) |->
            [date |-> sorted[i].date, price |-> sorted[i].close,
             volume |-> sorted[i].volume, high |-> sorted[i].high,
             low |-> sorted[i].low, open |-> sorted[i].open]]

Ascending(points) ==
    \A i \in 1..(Len(points) - 1) : points[i].date < points[i + 1].date

\* C27: for every raw time series and each of the six periods, the rawData
\* of a chart result is ascending by date, is a subsequence of the
\* date-sorted input (every point of it is a point of the input, in the
\* input's order), and has no more points than the period's cap: 30 for 1W
\* and 1M, 60 for 3M, 120 for 6M, 250 for 1Y, 1000 for 5Y.
C27_AscendingAndCapped ==
    (ChartDone /\ pcall.arg.period \in Periods) =>
        LET rawData == pcall.ret.rawData
        IN /\ Ascending(rawData)
           /\ \A i \in 1..Len(rawData) : rawData[i] \in Range(InputPoints)
           /\ Len(rawData) <= PeriodCap(pcall.arg.period)

\* C30: the rawData of a chart result is exactly the points of the raw
\* series whose date is on or after now - periodDuration (7, 30, 90, 180,
\* 365 and 5 x 365 days for 1W .. 5Y), in ascending order of date, each with
\* the open, high, low, close and volume of its own date, and all the points
\* when the period is not one of the six; so a series whose dates all lie
\* within the cutoff yields one point per input date. (A date d is on or
\* after the cutoff when d + days, in days, is at least the clock reading
\* rounded up to whole days.)
C30_ExactlySinceCutoff ==
    ChartDone =>
        LET period == pcall.arg.period
            kept == IF period \in Periods
                    THEN SelectSeq(InputPoints, LAMBDA x :
                            x.date + PeriodDays(period) >=
                                0 - ((0 - pcall.arg.at) \div DAY_MS))
                    ELSE InputPoints
        IN pcall.ret.rawData = kept

\* C28: every wishlist of the persisted collection has a name that is
\* trimmed (no blank at either end) and not empty, whatever names, blank
\* ones included, createWishlist was called with.
C28_NamesTrimmedNonEmpty ==
    \A i \in 1..Len(Persisted) :
        /\ Persisted[i].name # ""
        /\ trimString(Persisted[i].name) = Persisted[i].name

----------------------------------------------------------------------------
(* Expiring Cache: a get and a clearExpired overlapping a refresh *)

\* AsyncStorage carries out one request at a time, in the order they were
\* made: a request handed over is carried out before anything else happens
StorePending ==
    \/ hcall.pc = "multiRemove"
    \/ \E p \in FProcs : fcall[p].pc \in {"getItem", "removeItem", "setItem"}

\* Caller 1 reads the cache (get), caller 2 refreshes that key or another
\* from the API (a forced fetch, which ends in set), and clearExpired runs
\* alongside
EvictNext ==
    \/ ~StorePending /\ Elapse
    \/ ~StorePending /\ cacheGet(1, "overview")
    \/ ~StorePending /\ \E cat \in {"overview", "chart"} : fetch(2, cat, TRUE)
    \/ ~StorePending /\ clearExpired
    \/ \E p \in FProcs :
        \/ cacheGetItem(p)
        \/ ~StorePending /\ cacheGetCont(p)
        \/ cacheRemoveItem(p)
        \/ ~StorePending /\ apiReturn(p)
        \/ cacheSetItem(p)
        \/ ~StorePending /\ fetchReturn(p)
    \/ ~StorePending /\ houseGetAllKeys
    \/ ~StorePending /\ houseScan
    \/ houseMultiRemove
    \/ ~StorePending /\ houseReturn

EvictSpec == Init /\ [][EvictNext]_vars

\* C29: no removal issued by get's auto-eviction or by clearExpired deletes
\* an entry that is within its TTL when the removal takes effect, whatever
\* was written to the key (by the set of an overlapping fetch) since the
\* entry was found stale; remove(key) and clearAll are the only operations
\* that delete such an entry.
C29_FreshNeverEvicted ==
    [][\A k \in HouseKeys :
        (/\ cstore[k].has
         /\ Decodable(cstore[k])
         /\ now <= cstore[k].expiration
         /\ ~cstore'[k].has)
            => hcall.op \in {"remove", "clearAll"}
    ]_vars

----------------------------------------------------------------------------
(* Market Data Gateway: makeRequest step by step, with its timeout timer.
   fetch settles when the response's status line and headers are in; the body
   is read afterwards by response.json() *)

\* What the upstream does with one request: whether it ever delivers the
\* status line, and whether it ever completes the body after that
Upstreams ==
    { [kind |-> "network", head |-> FALSE, body |-> FALSE, response |-> NoData] }
    \cup { [kind |-> "response", head |-> h, body |-> b, response |-> t] :
            h \in BOOLEAN, b \in BOOLEAN, t \in Responses }

\* makeRequest is called: setTimeout arms the abort, fetch is awaited
timedRequest ==
    /\ pcall = IdlePure
    /\ \E u \in Upstreams :
        pcall' = [op |-> "makeRequest", pc |-> "fetch", timer |-> TRUE, upstream |-> u]
    /\ UNCHANGED <<now, wvars, cvars, hcall, scall>>

\* the timeout elapses with the timer still set: controller.abort() makes
\* the pending fetch reject with an AbortError, which makeRequest rethrows
abortFires ==
    /\ pcall.op = "makeRequest"
    /\ pcall.pc \in {"fetch", "json"}
    /\ pcall.timer
    /\ LET t == [kind |-> "abort", status |-> 0, field |-> "none", body |-> NoData]
       IN pcall' = [op |-> "makeRequest", pc |-> "done", arg |-> t,
                    ret |-> makeRequest(t)]
    /\ UNCHANGED <<now, wvars, cvars, hcall, scall>>

\* fetch rejects on a network failure
fetchRejects ==
    /\ pcall.op = "makeRequest"
    /\ pcall.pc = "fetch"
    /\ pcall.upstream.kind = "network"
    /\ LET t == [kind |-> "network", status |-> 0, field |-> "none", body |-> NoData]
       IN pcall' = [op |-> "makeRequest", pc |-> "done", arg |-> t,
                    ret |-> makeRequest(t)]
    /\ UNCHANGED <<now, wvars, cvars, hcall, scall>>

\* fetch resolves with the response: clearTimeout, then either the HTTP
\* error of a response that is not ok, or response.json() is awaited
fetchResolves ==
    /\ pcall.op = "makeRequest"
    /\ pcall.pc = "fetch"
    /\ pcall.upstream.kind = "response"
    /\ pcall.upstream.head
    /\ LET t == pcall.upstream.response
       IN pcall' = IF t.status >= 200 /\ t.status <= 299
                   THEN [pcall EXCEPT !.pc = "json", !.timer = FALSE]
                   ELSE [op |-> "makeRequest", pc |-> "done", arg |-> t,
                         ret |-> makeRequest(t)]
    /\ UNCHANGED <<now, wvars, cvars, hcall, scall>>

\* response.json() settles once the body is complete
jsonSettles ==
    /\ pcall.op = "makeRequest"
    /\ pcall.pc = "json"
    /\ pcall.upstream.body
    /\ LET t == pcall.upstream.response
       IN pcall' = [op |-> "makeRequest", pc |-> "done", arg |-> t,
                    ret |-> makeRequest(t)]
    /\ UNCHANGED <<now, wvars, cvars, hcall, scall>>

TimeoutNext ==
    \/ timedRequest
    \/ abortFires
    \/ fetchRejects
    \/ fetchResolves
    \/ jsonSettles
    \/ pureReturn

\* a timer that is set fires, and what the upstream is going to deliver
\* arrives
TimeoutSpec ==
    /\ Init
    /\ [][TimeoutNext]_vars
    /\ WF_vars(abortFires)
    /\ WF_vars(fetchRejects)
    /\ WF_vars(fetchResolves)
    /\ WF_vars(jsonSettles)

----------------------------------------------------------------------------
(* addStockToWishlist and removeStockFromWishlist: what they change *)

\* the wishlist x is the wishlist w but for its stocks and its updatedAt
SameButStocks(x, w) == [x EXCEPT !.stocks = w.stocks, !.updatedAt = w.updatedAt] = w

\* the positions of `stocks` holding another symbol than sym
Kept(stocks, sym) == {j \in 1..Len(stocks) : stocks[j].symbol # sym}

\* C32: removeStock on an existing list, its read done, goes on to write the
\* collection it read with exactly the stocks of the first list of that id
\* whose symbol equals the argument taken out, the remaining stocks in their
\* order (all of them when the symbol is absent); addStock of a stock the
\* list does not hold goes on to write it with exactly one stock, carrying
\* the identifier given, appended at the end of that list; in both every
\* other wishlist, and the id, name and createdAt of every wishlist, are as
\* read, and the write that takes effect persists exactly that collection.
C32_AddRemoveFrame ==
    [][\A p \in WProcs :
        LET arr == wcall[p].arr
            i == findIndex(arr, wcall[p].id)
            out == wcall'[p].out
        IN /\ (ContStep(p, "remove") /\ i # 0) =>
                LET keep == Kept(arr[i].stocks, wcall[p].sym)
                IN /\ wstore' = wstore
                   /\ wcall'[p].pc = "write"
                   /\ Len(out) = Len(arr)
                   /\ \A k \in 1..Len(arr) : k # i => out[k] = arr[k]
                   /\ SameButStocks(out[i], arr[i])
                   /\ Len(out[i].stocks) = Cardinality(keep)
                   /\ \A j \in keep :
                        out[i].stocks[Cardinality({k \in keep : k <= j})] = arr[i].stocks[j]
           /\ (ContStep(p, "add") /\ i # 0 /\ wcall'[p].pc = "write") =>
                /\ wstore' = wstore
                /\ Len(out) = Len(arr)
                /\ \A k \in 1..Len(arr) : k # i => out[k] = arr[k]
                /\ SameButStocks(out[i], arr[i])
                /\ Len(out[i].stocks) = Len(arr[i].stocks) + 1
                /\ SubSeq(out[i].stocks, 1, Len(arr[i].stocks)) = arr[i].stocks
                /\ out[i].stocks[Len(out[i].stocks)].symbol = Identifier(wcall[p].stock)
           /\ (ContStep(p, "add") /\ i # 0 /\ ~stockExists(arr[i], wcall[p].stock)) =>
                wcall'[p].pc = "write"
           /\ (WriteOkStep(p, "remove") \/ WriteOkStep(p, "add")) =>
                Persisted' = wcall[p].out
    ]_vars

\* a removeStock has been written over a collection of two lists: its list
\* is left with one stock of another symbol, the other list still holds its
\* own stock
C32_Witness ==
    /\ wcall[1].op = "remove"
    /\ wcall[1].pc = "wrote"
    /\ wcall[1].wok
    /\ Len(Persisted) = 2
    /\ \E i, k \in 1..2 :
        /\ i # k
        /\ Persisted[i].id = wcall[1].id
        /\ Len(Persisted[i].stocks) = 1
        /\ Persisted[i].stocks[1].symbol # wcall[1].sym
        /\ Len(Persisted[k].stocks) >= 1

----------------------------------------------------------------------------
(* Movers reshaping: formatStockData of the two StockService files *)

MaxMovers == 2      \* a raw movers list holds at most this many entries

\* knownTickers of stockService.js: the table of stockService_new.js and six
\* more tickers
KnownTickersLong ==
    KnownTickers @@
    ("T" :> "AT&T Inc.") @@
    ("PM" :> "Philip Morris") @@
    ("RTX" :> "Raytheon Tech.") @@
    ("LOW" :> "Lowe's Companies") @@
    ("ORCL" :> "Oracle Corp.") @@
    ("QCOM" :> "Qualcomm Inc.")

\* knownTickers[ticker] || `${ticker} Corp.`
getCompanyNameCorp(ticker) ==
    IF ticker \in DOMAIN KnownTickersLong THEN KnownTickersLong[ticker]
    ELSE ticker \o " Corp."

formatStockListCorp(stocks) ==
    [i \in 1..Len(stocks) |->
        [id |-> i,
         ticker |-> stocks[i].ticker,
         name |-> getCompanyNameCorp(stocks[i].ticker),
         price |-> Dollar(stocks[i].price),
         change |-> stocks[i].change_percentage,
         changeAmount |-> Dollar(stocks[i].change_amount),
         volume |-> stocks[i].volume]]

formatStockDataCorp(apiData) ==
    [metadata |-> [text |-> apiData.metadata],
     lastUpdated |-> [text |-> apiData.last_updated],
     topGainers |-> formatStockListCorp(apiData.top_gainers),
     topLosers |-> formatStockListCorp(apiData.top_losers),
     mostActive |-> formatStockListCorp(apiData.most_actively_traded)]

\* raw entries: a ticker of both tables, one of the longer table only, and
\* one of neither
RawStocks ==
    { RawStock("AAPL", 1754300, 12500, "0.7177%", "52341234"),
      RawStock("T", 171200, 0 - 900, "-0.5229%", "31234567"),
      RawStock("XYZ", 12349, 0 - 5051, "-29.0300%", "1234") }

\* a list field of the body: missing, or an array of raw entries
RawLists ==
    { [has |-> FALSE, items |-> << >>] }
    \cup { [has |-> TRUE, items |-> s] :
            s \in UNION { [1..k -> RawStocks] : k \in 0..MaxMovers } }

\* apiData.<list> || []
OrEmptyList(f) == IF f.has THEN f.items ELSE << >>

MoversFiles == {"stockService_new.js", "stockService.js"}

\* formatStockData(apiData) is called and returns
moversFormat(file, gainers, losers, active) ==
    /\ pcall = IdlePure
    /\ LET apiData == [lists |-> "array",
                       metadata |-> "Top gainers, losers, and most actively traded US tickers",
                       last_updated |-> "2024-01-02 16:15:59 US/Eastern",
                       top_gainers |-> OrEmptyList(gainers),
                       top_losers |-> OrEmptyList(losers),
                       most_actively_traded |-> OrEmptyList(active)]
       IN pcall' = [op |-> "formatStockData", pc |-> "done",
                    arg |-> [file |-> file, top_gainers |-> gainers,
                             top_losers |-> losers, most_actively_traded |-> active],
                    ret |-> IF file = "stockService_new.js"
                            THEN formatStockData(apiData)
                            ELSE formatStockDataCorp(apiData)]
    /\ UNCHANGED <<now, wvars, cvars, hcall, scall>>

MoversNext ==
    \/ \E file \in MoversFiles, g \in RawLists, l \in RawLists, a \in RawLists :
        moversFormat(file, g, l, a)
    \/ pureReturn

MoversSpec == Init /\ [][MoversNext]_vars

\* the output list is the input list reshaped entry by entry with the names
\* of `table`, and is empty for a missing input list
ReshapedFrom(outList, rawList, table) ==
    /\ Len(outList) = (IF rawList.has THEN Len(rawList.items) ELSE 0)
    /\ \A i \in 1..Len(outList) :
        LET raw == rawList.items[i]
            item == outList[i]
        IN /\ item.id = (i - 1) + 1
           /\ item.ticker = raw.ticker
           /\ item.name = (IF raw.ticker \in DOMAIN table
                           THEN table[raw.ticker]
                           ELSE raw.ticker \o " Corp.")
           /\ item.change = raw.change_percentage
           /\ item.volume = raw.volume

\* C33: movers reshaping maps the raw entry at position i (0-based) of each
\* of the three lists to an item with id = i + 1 and the same ticker, name =
\* the static table's name for the ticker or else "<ticker> Corp.", change
\* and volume as given; each output list has the length and order of its
\* input list, and a missing input list yields an empty output list.
C33_MoversReshape ==
    (pcall.op = "formatStockData" /\ pcall.pc = "done") =>
        LET table == IF pcall.arg.file = "stockService_new.js"
                     THEN KnownTickers ELSE KnownTickersLong
        IN /\ ReshapedFrom(pcall.ret.topGainers, pcall.arg.top_gainers, table)
           /\ ReshapedFrom(pcall.ret.topLosers, pcall.arg.top_losers, table)
           /\ ReshapedFrom(pcall.ret.mostActive, pcall.arg.most_actively_traded, table)

----------------------------------------------------------------------------
(* The cache across a fetch whose Gateway call failed *)

\* C34: a fetch whose Gateway call failed never writes to the cache: from
\* the failure on no step of it adds an entry or changes the payload or the
\* expiry of an entry, whatever it ends with (a cached payload, the fixed
\* movers fallback dataset, or an error); and the fixed fallback dataset is
\* never the payload stored under the movers key.
C34_FallbackNeverCached ==
    [][/\ \A p \in FProcs :
            (/\ fcall[p].op = "fetch"
             /\ fcall'[p] # fcall[p]
             /\ GatewayFailed(fcall[p]) \/ GatewayFailed(fcall'[p])) =>
                \A k \in HouseKeys : cstore'[k].has => cstore'[k] = cstore[k]
       /\ LET e == cstore'[CacheKey("movers")]
          IN (e.has /\ Decodable(e)) => e.data.mostActive # dummyStocks
    ]_vars

\* a movers fetch has ended with the fallback dataset after a failed Gateway
\* call: nothing is stored under the movers key, and the entry another fetch
\* stored is still there
C34_Witness ==
    /\ fcall[1].op = "fetch"
    /\ fcall[1].cat = "movers"
    /\ fcall[1].pc = "done"
    /\ GatewayFailed(fcall[1])
    /\ fcall[1].ret.kind = "data"
    /\ fcall[1].ret.data.mostActive = dummyStocks
    /\ ~cstore[CacheKey("movers")].has
    /\ cstore[CacheKey("overview")].has

----------------------------------------------------------------------------
(* One AsyncStorage under the Expiring Cache and the Wishlist Store *)

StoreKeys == {"top_gainers_losers", "search_results_AAPL"}

StoreNext ==
    \/ Elapse
    \/ \E k \in StoreKeys : cacheSet(k)
    \/ \E k \in StoreKeys : cacheRemove(k)
    \/ clearAll
    \/ clearExpired
    \/ houseSetItem
    \/ houseRemoveItem
    \/ houseGetAllKeys
    \/ houseScan
    \/ houseMultiRemove
    \/ houseReturn
    \/ createWishlist(1, "Tech")
    \/ createWishlistCont(1)
    \/ createWishlistDone(1)
    \/ clearAllWishlists(1)
    \/ clearAllWishlistsDone(1)
    \/ setItem(1)

StoreSpec == Init /\ [][StoreNext]_vars

\* the storage key begins with the six characters of the cache namespace
UnderCachePrefix(key) == Len(key) >= 6 /\ SubSeq(key, 1, 6) = "cache_"

\* C35: every cache entry sits under a key carrying the prefix 'cache_',
\* which the wishlist collection key does not carry; no step of a cache
\* operation (set, remove, clearAll, clearExpired) deletes or alters the
\* persisted wishlist collection, and no step of a wishlist operation
\* (clearAllWishlists included) deletes or alters a cache entry.
C35_KeyIsolation ==
    [][/\ \A k \in HouseKeys :
            /\ UnderCachePrefix(StorageKey(k))
            /\ StorageKey(k) # StorageKey(WISHLIST_KEY)
       /\ ~UnderCachePrefix(StorageKey(WISHLIST_KEY))
       /\ hcall' # hcall => wstore' = wstore
       /\ wcall' # wcall => cstore' = cstore
    ]_vars

\* clearAll has removed the cache entries it found while a wishlist is
\* persisted: no cache entry is left, the collection still holds its list
C35_Witness ==
    /\ hcall.op = "clearAll"
    /\ hcall.pc = "done"
    /\ hcall.ok
    /\ Len(hcall.expiredKeys) = 2
    /\ \A k \in HouseKeys : ~cstore[k].has
    /\ wstore.has
    /\ Len(Persisted) >= 1

----------------------------------------------------------------------------
(* The Gateway request of a chart fetch: fetchStockChart of
   stockService_new.js and fetchChartData of stockService.js *)

ChartSymbols == {"AAPL", "TSLA", "IBM"}

\* the periods of the period selector, no period given, and one that is not
\* recognized
RequestPeriods == Periods \cup {Undef, "MAX"}

\* apiService.getDailyTimeSeries / getWeeklyTimeSeries / getMonthlyTimeSeries
\* / getIntradayTimeSeries: the endpoint and the parameters of makeRequest
getDailyTimeSeries(symbol, outputsize) ==
    [endpoint |-> "TIME_SERIES_DAILY", symbol |-> symbol,
     outputsize |-> outputsize, interval |-> Undef]
getWeeklyTimeSeries(symbol) ==
    [endpoint |-> "TIME_SERIES_WEEKLY", symbol |-> symbol,
     outputsize |-> Undef, interval |-> Undef]
getMonthlyTimeSeries(symbol) ==
    [endpoint |-> "TIME_SERIES_MONTHLY", symbol |-> symbol,
     outputsize |-> Undef, interval |-> Undef]
getIntradayTimeSeries(symbol, interval) ==
    [endpoint |-> "TIME_SERIES_INTRADAY", symbol |-> symbol,
     outputsize |-> Undef, interval |-> interval]

\* fetchStockChart(symbol, period = '1M'): the if / else if / else
fetchStockChartRequest(symbol, period) ==
    LET per == IF period = Undef THEN "1M" ELSE period
    IN IF per = "1W" \/ per = "1M" THEN getDailyTimeSeries(symbol, "compact")
       ELSE IF per = "3M" \/ per = "6M" \/ per = "1Y" THEN getWeeklyTimeSeries(symbol)
       ELSE getMonthlyTimeSeries(symbol)

\* fetchChartData(symbol, period = '1M'): the switch
fetchChartDataRequest(symbol, period) ==
    LET per == IF period = Undef THEN "1M" ELSE period
    IN CASE per = "1W" -> getIntradayTimeSeries(symbol, "60min")
         [] per \in {"1M", "3M", "6M"} -> getDailyTimeSeries(symbol, "compact")
         [] per \in {"1Y", "5Y"} -> getDailyTimeSeries(symbol, "full")
         [] OTHER -> getDailyTimeSeries(symbol, "compact")

ChartFetches == {"fetchStockChart", "fetchChartData"}

\* the chart fetch gets to its Gateway call and awaits it
chartRequest(fn, symbol, period) ==
    /\ pcall = IdlePure
    /\ pcall' = [op |-> fn, pc |-> "api",
                 arg |-> [symbol |-> symbol, period |-> period],
                 requests |-> << IF fn = "fetchStockChart"
                                 THEN fetchStockChartRequest(symbol, period)
                                 ELSE fetchChartDataRequest(symbol, period) >>,
                 resp |-> NoEnvelope]
    /\ UNCHANGED <<now, wvars, cvars, hcall, scall>>

\* the Gateway call settles; no branch after it calls the Gateway again
chartRequestSettle ==
    /\ pcall.op \in ChartFetches
    /\ pcall.pc = "api"
    /\ \E t \in Failures \cup { [kind |-> "response", status |-> 200, field |-> f,
                                 body |-> NoSeriesBody] : f \in {"none", "Note"} } :
        pcall' = [pcall EXCEPT !.pc = "done", !.resp = makeRequest(t)]
    /\ UNCHANGED <<now, wvars, cvars, hcall, scall>>

RequestNext ==
    \/ \E fn \in ChartFetches, symbol \in ChartSymbols, period \in RequestPeriods :
        chartRequest(fn, symbol, period)
    \/ chartRequestSettle
    \/ pureReturn

RequestSpec == Init /\ [][RequestNext]_vars

\* C36: a chart fetch that reaches the Gateway issues exactly one Gateway
\* request, chosen by period only: the daily series for 1W and 1M, the weekly
\* series for 3M, 6M and 1Y, the monthly series for 5Y and any other period.
C36_EndpointByPeriod ==
    (pcall.op \in ChartFetches /\ pcall.pc \in {"api", "done"}) =>
        LET per == IF pcall.arg.period = Undef THEN "1M" ELSE pcall.arg.period
        IN /\ Len(pcall.requests) = 1
           /\ pcall.requests[1].symbol = pcall.arg.symbol
           /\ pcall.requests[1].endpoint =
                (IF per \in {"1W", "1M"} THEN "TIME_SERIES_DAILY"
                 ELSE IF per \in {"3M", "6M", "1Y"} THEN "TIME_SERIES_WEEKLY"
                 ELSE "TIME_SERIES_MONTHLY")

----------------------------------------------------------------------------
(* Search Service: clearSearchCache *)

\* the methods the CacheService class defines
CacheServiceMethods ==
    {"set", "get", "remove", "isValid", "getAge", "clearAll", "clearExpired", "getStats"}

\* clearSearchCache(): its first statement calls cacheService.getAllKeys,
\* which the cache does not define; the TypeError is caught and logged, the
\* filter and the loop of removes are never reached
clearSearchCache ==
    /\ scall = NoSearch
    /\ "getAllKeys" \notin CacheServiceMethods
    /\ scall' = [SearchCall("clearSearchCache", Undef, FALSE) EXCEPT
                    !.saw = "TypeError: cacheService.getAllKeys is not a function"]
    /\ UNCHANGED <<now, wvars, cvars, hcall, pcall>>

PurgeNext ==
    \/ Tick
    \/ Elapse
    \/ \E raw \in CachedQueries, forceRefresh \in BOOLEAN : searchStocks(raw, forceRefresh)
    \/ searchGetItem
    \/ searchGetCont
    \/ searchRemoveItem
    \/ searchSetItem
    \/ clearSearchCache
    \/ searchDone

PurgeSpec == Init /\ [][PurgeNext]_vars

\* C37: when clearSearchCache completes, no cached search-result entry is
\* left in the store, and every cache entry that is not a search result is as
\* it was.
C37_SearchCacheCleared ==
    [][(/\ scall = NoSearch
        /\ scall' # NoSearch
        /\ scall'.op = "clearSearchCache"
        /\ scall'.pc = "done") =>
            \A k \in HouseKeys :
                IF startsWith(k, SEARCH_RESULTS_KEY)
                THEN ~cstore'[k].has
                ELSE cstore'[k] = cstore[k]]_vars

----------------------------------------------------------------------------
(* Two overlapping movers fetches: the upstream answers each request with
   its data of the moment, and the answers reach the app in any order *)

\* the movers body the upstream produces at clock reading t
MoversBodyAt(t) == [MoversBodyA EXCEPT !.last_updated = t]

\* the upstream handles the request of caller p: the response it produces,
\* or the failure of the call, is under way to the app
apiProduce(p) ==
    /\ fcall[p].pc = "api"
    /\ \E t \in { [kind |-> "response", status |-> 200, field |-> "none",
                   body |-> MoversBodyAt(now)],
                  [kind |-> "network", status |-> 0, field |-> "none",
                   body |-> NoData] } :
        fcall' = [fcall EXCEPT ![p].pc = "inflight", ![p].resp = makeRequest(t)]
    /\ UNCHANGED <<now, wvars, cstore, xvars>>

\* `await apiService.getTopGainersLosers()` resumes with the envelope
apiDeliver(p) ==
    /\ fcall[p].pc = "inflight"
    /\ fcall' = [fcall EXCEPT ![p] = AfterRequest(fcall[p], fcall[p].resp, now)]
    /\ UNCHANGED <<now, wvars, cstore, xvars>>

OverlapNext ==
    \/ ~StorePending /\ Tick
    \/ ~StorePending /\ Elapse
    \/ \E p \in FProcs :
        \/ ~StorePending /\ \E forceRefresh \in BOOLEAN : fetch(p, "movers", forceRefresh)
        \/ cacheGetItem(p)
        \/ ~StorePending /\ cacheGetCont(p)
        \/ cacheRemoveItem(p)
        \/ ~StorePending /\ apiProduce(p)
        \/ ~StorePending /\ apiDeliver(p)
        \/ cacheSetItem(p)
        \/ ~StorePending /\ fetchReturn(p)

OverlapSpec == Init /\ [][OverlapNext]_vars

\* both callers' fetches have completed, each with a Gateway response that
\* was reshaped and written to the cache
BothFetched ==
    \A p \in FProcs :
        /\ fcall[p].op = "fetch"
        /\ fcall[p].pc = "done"
        /\ fcall[p].called
        /\ fcall[p].resp.success
        /\ fcall[p].wOk

\* C38: once two fetches of the movers key that were in flight together have
\* both completed with a successful Gateway call and a cache write that took
\* effect, the cache entry holds the payload of the response the upstream
\* produced last.
C38_NewestResponseCached ==
    BothFetched =>
        LET a == fcall[1].resp.data.last_updated
            b == fcall[2].resp.data.last_updated
            e == cstore[CacheKey("movers")]
        IN /\ e.has
           /\ e.data.lastUpdated.text = (IF a >= b THEN a ELSE b)

====
